---------------------------- MODULE Spec2Model ----------------------------
(***************************************************************************)
(* A model of ddb-tools: the index (.ddi) parser of utils/ddi_utils.py,    *)
(* its backward search for chunk headers in the data file (.ddb), and the  *)
(* pack orchestrator of pack_ddb.py, the voice-quality mix-in of           *)
(* mixins_ddb.py and the extraction of extract_wav.py.                     *)
(*                                                                         *)
(* Files and buffers are sequences of bytes (0..255).  A Python position   *)
(* p is 0-based: the byte at position p is buf[p+1].                       *)
(***************************************************************************)
EXTENDS Integers, Sequences, FiniteSets, TLC

VARIABLES
    pc,               \* position of the running program
    \* ---- the data file and the backward search (ddi_utils.py:45-68)
    ddb_bytes,        \* contents of the data file that is read
    snd_offset,       \* the declared offset handed to the search
    limit,            \* the window handed to the search
    real_snd_offset,  \* result of stream_reverse_search
    rs_result,        \* result of reverse_search
    \* ---- DDIModel (ddi_utils.py:72-81)
    ddi_bytes,        \* self.ddi_bytes
    ddi_pos,          \* self.ddi_data.tell()
    phdc_data, tdb_data, sta_data, art_data, vqm_data,
    offset_map,       \* self.offset_map
    ddi_data_dict,    \* self.ddi_data_dict
    recovered,        \* history: number of ARTp whose first EpR layout failed
    \* ---- pack_ddb.main
    tree,             \* the chunk files of the singer tree: path -> bytes
    ddi_data,         \* io.BytesIO(ddi_bytes) that pack patches
    ddb_f,            \* the new data file
    ddi_file,         \* the written index file, NoFile until written
    art_file,         \* the articulation file path last computed
    todo,             \* the work that pack still has to do, in order
    log,              \* history: what pack wrote where
    \* ---- mixins_ddb.main
    mix,              \* the files, arguments and locals of the mix-in
    \* ---- extract_wav.main
    ext,              \* the arguments, locals and output files of extract
    input             \* the description the index under test was built from

searchVars == <<ddb_bytes, snd_offset, limit, real_snd_offset, rs_result>>
modelVars  == <<ddi_bytes, ddi_pos, phdc_data, tdb_data, sta_data, art_data,
                vqm_data, offset_map, ddi_data_dict, recovered>>
packVars   == <<tree, ddi_data, ddb_f, ddi_file, art_file, todo, log>>
toolVars   == <<mix, ext>>
vars       == <<pc, searchVars, modelVars, packVars, toolVars, input>>

NoFile == <<-1>>      \* a file that does not exist (no byte is -1)
\* a field that holds None or a dict
None    == [none |-> TRUE, dict |-> <<>>]
Some(d) == [none |-> FALSE, dict |-> d]

-----------------------------------------------------------------------------
(* Bytes, cursors, integers *)

Min(a, b) == IF a < b THEN a ELSE b
Max(a, b) == IF a > b THEN a ELSE b

\* data[p:p+n] and BytesIO.read(n) at cursor p: short at the end of the data
Rd(buf, p, n) == SubSeq(buf, p + 1, Min(p + n, Len(buf)))

\* int.from_bytes(bs, byteorder='little')
RECURSIVE from_bytes(_)
from_bytes(bs) == IF bs = <<>> THEN 0 ELSE Head(bs) + 256 * from_bytes(Tail(bs))

\* n.to_bytes(k, byteorder='little')
RECURSIVE to_bytes(_, _)
to_bytes(n, k) == IF k = 0 THEN <<>> ELSE <<n % 256>> \o to_bytes(n \div 256, k - 1)

\* bs with its high-order zero bytes removed
RECURSIVE StripHigh(_)
StripHigh(bs) ==
    IF bs # <<>> /\ bs[Len(bs)] = 0 THEN StripHigh(SubSeq(bs, 1, Len(bs) - 1)) ELSE bs

\* int.from_bytes(bs, 'little') == v, decided on the bytes (any width)
IntIs(bs, v) == StripHigh(bs) = StripHigh(to_bytes(v, 4))

Rep(b, n) == [i \in 1..n |-> b]

\* bytes.find(pat): first position of pat in buf, -1 when absent
find(buf, pat) ==
    LET hits == {p \in 0..(Len(buf) - Len(pat)) : Rd(buf, p, Len(pat)) = pat}
    IN  IF hits = {} THEN -1 ELSE CHOOSE p \in hits : \A q \in hits : p <= q

\* the tags and literals of the two file formats, as ASCII
SND_  == <<83, 78, 68, 32>>          \* 'SND '
FRM2  == <<70, 82, 77, 50>>          \* 'FRM2'
ARR_  == <<65, 82, 82, 32>>          \* 'ARR '

-----------------------------------------------------------------------------
(* Tags and literal strings of the index, as ASCII *)

STA_           == <<83, 84, 65, 32>>                                   \* 'STA '
STAu           == <<83, 84, 65, 117>>                                  \* 'STAu'
STAp           == <<83, 84, 65, 112>>                                  \* 'STAp'
ART_           == <<65, 82, 84, 32>>                                   \* 'ART '
ARTu           == <<65, 82, 84, 117>>                                  \* 'ARTu'
ARTp           == <<65, 82, 84, 112>>                                  \* 'ARTp'
VQM_           == <<86, 81, 77, 32>>                                   \* 'VQM '
VQMu           == <<86, 81, 77, 117>>                                  \* 'VQMu'
VQMp           == <<86, 81, 77, 112>>                                  \* 'VQMp'
EMPT           == <<69, 77, 80, 84>>                                   \* 'EMPT'
PHDC           == <<80, 72, 68, 67>>                                   \* 'PHDC'
PHG2           == <<80, 72, 71, 50>>                                   \* 'PHG2'
TDB_           == <<84, 68, 66, 32>>                                   \* 'TDB '
TMM_           == <<84, 77, 77, 32>>                                   \* 'TMM '
DBV_           == <<68, 66, 86, 32>>                                   \* 'DBV '
S_SND          == <<83, 78, 68>>                                       \* 'SND'
S_EpR          == <<69, 112, 82>>                                      \* 'EpR'
S_default      == <<100, 101, 102, 97, 117, 108, 116>>                 \* 'default'
S_normal       == <<110, 111, 114, 109, 97, 108>>                      \* 'normal'
S_stationary   == <<115, 116, 97, 116, 105, 111, 110, 97, 114, 121>>   \* 'stationary'
S_articulation == <<97, 114, 116, 105, 99, 117, 108, 97, 116, 105, 111, 110>>
S_GROWL        == <<71, 82, 79, 87, 76>>                               \* 'GROWL'
S_vqm          == <<118, 113, 109>>                                    \* 'vqm'
S_pitch        == <<112, 105, 116, 99, 104>>                           \* 'pitch'
S_dynamics     == <<100, 121, 110, 97, 109, 105, 99, 115>>             \* 'dynamics'
S_opening      == <<111, 112, 101, 110, 105, 110, 103>>                \* 'opening'
S_timbre       == <<116, 105, 109, 98, 114, 101>>                      \* 'timbre'
S_voice        == <<118, 111, 105, 99, 101>>                           \* 'voice'
\* ddi_footer of mixins_ddb.py: b'\x05\x00\x00\x00' + 'voice'
ddi_footer     == <<5, 0, 0, 0>> \o S_voice

FF(n) == Rep(255, n)
ZZ(n) == Rep(0, n)

-----------------------------------------------------------------------------
(* Python strings that the parser builds: sequences of one-character strings *)

HexDigit == <<"0", "1", "2", "3", "4", "5", "6", "7",
              "8", "9", "a", "b", "c", "d", "e", "f">>

\* format(n, 'x') for n >= 0
RECURSIVE hex(_)
hex(n) == IF n < 16 THEN <<HexDigit[n + 1]>>
          ELSE hex(n \div 16) \o <<HexDigit[(n % 16) + 1]>>

Abs(n) == IF n < 0 THEN -n ELSE n
Sign(n) == IF n < 0 THEN <<"-">> ELSE <<>>
Pad(n) == [i \in 1..Max(n, 0) |-> "0"]

\* f'{n:0>Wx}': fill with '0' on the left of the signed digits
fmt_fill(n, W) == LET s == Sign(n) \o hex(Abs(n)) IN Pad(W - Len(s)) \o s
\* f'{n:0Wx}': sign first, then zeros, then the digits
fmt_zero(n, W) == LET h == hex(Abs(n)) IN Sign(n) \o Pad(W - Len(Sign(n)) - Len(h)) \o h

DigitVal(c) == CHOOSE v \in 0..15 : HexDigit[v + 1] = c

RECURSIVE hexval(_)
hexval(s) == IF s = <<>> THEN 0
             ELSE 16 * hexval(SubSeq(s, 1, Len(s) - 1)) + DigitVal(s[Len(s)])

\* int(s, 16): an optional sign, then hex digits
int16(s) == IF s # <<>> /\ s[1] = "-" THEN -hexval(Tail(s)) ELSE hexval(s)

\* s.split(c) for a string with exactly one c: <<before, after>>
IndexOf(s, c) == CHOOSE i \in 1..Len(s) : s[i] = c /\ \A j \in 1..(i - 1) : s[j] # c
Count(s, c) == Cardinality({i \in 1..Len(s) : s[i] = c})
split2(s, c) == LET i == IndexOf(s, c) IN <<SubSeq(s, 1, i - 1), SubSeq(s, i + 1, Len(s))>>

\* bytes_to_str(data): ' '.join(f'{b:02x}')
RECURSIVE bytes_to_str(_)
bytes_to_str(data) ==
    IF data = <<>> THEN <<>>
    ELSE fmt_zero(Head(data), 2)
         \o (IF Len(data) > 1 THEN <<" ">> \o bytes_to_str(Tail(data)) ELSE <<>>)

\* epr_str with the site taken after the 8 bytes were read, not before
epr_str_after_read(site, offset) ==
    fmt_fill(site + 8, 8) \o <<"=">> \o fmt_fill(offset, 8)

\* the recorded cross-references: 'site=offset' and 'site=offset_identifier'
epr_str(site, offset) == fmt_fill(site, 8) \o <<"=">> \o fmt_fill(offset, 8)
sta_snd_str(site, offset, id) ==
    fmt_fill(site, 8) \o <<"=">> \o fmt_zero(offset, 16) \o <<"_">> \o fmt_zero(id, 8)
art_snd_str(site, offset, id) ==
    fmt_zero(site, 8) \o <<"=">> \o fmt_zero(offset, 16) \o <<"_">> \o fmt_zero(id, 8)

\* what the consumers read back from them
ref_site(s)   == int16(split2(s, "=")[1])
ref_offset(s) == LET t == split2(s, "=")[2]
                 IN  int16(IF Count(t, "_") = 0 THEN t ELSE split2(t, "_")[1])
ref_id(s)     == int16(split2(split2(s, "=")[2], "_")[2])

-----------------------------------------------------------------------------
(* Python dicts: sequences of [k, v] in insertion order, keys distinct *)

DictHas(d, k) == \E i \in 1..Len(d) : d[i].k = k
DictGet(d, k) == d[CHOOSE i \in 1..Len(d) : d[i].k = k].v
\* d[k] = v: a present key keeps its place and takes the new value
DictPut(d, k, v) ==
    IF DictHas(d, k)
    THEN [i \in 1..Len(d) |-> IF d[i].k = k THEN [k |-> k, v |-> v] ELSE d[i]]
    ELSE Append(d, [k |-> k, v |-> v])
Keys(d)   == [i \in 1..Len(d) |-> d[i].k]

\* str < str of Python on ASCII strings
StrLess(a, b) ==
    \E i \in 1..Len(b) :
        /\ i <= Len(a) + 1
        /\ \A j \in 1..(i - 1) : a[j] = b[j]
        /\ (i = Len(a) + 1 \/ a[i] < b[i])
IntLess(a, b) == a < b

\* {k: d[k] for k in sorted(d.keys())}
Sorted(d, Less(_, _)) ==
    [i \in 1..Len(d) |->
        d[CHOOSE n \in 1..Len(d) :
            Cardinality({j \in 1..Len(d) : Less(d[j].k, d[n].k)}) = i - 1]]
-----------------------------------------------------------------------------
(* Backward search (ddi_utils.py:45-68) *)

\* for i in range(offset, 0, -1): the data at i is compared first; only
\* then does `offset - i > limit' end the loop.  The loop therefore reaches
\* i when i = offset or when i + 1 did not end it.
Reached(offset, lim) ==
    {i \in 1..offset : i = offset \/ offset - (i + 1) <= lim}

\* the first match on the way down, -1 when the loop ends without one
search_loop(data, search, offset, lim) ==
    LET hits == {i \in Reached(offset, lim) : Rd(data, i, Len(search)) = search}
    IN  IF hits = {} THEN -1 ELSE CHOOSE i \in hits : \A j \in hits : j <= i

TenMiB == 10485760

reverse_search(data, search, offset, lim) ==
    LET l == IF lim = -1 THEN offset - Len(search) ELSE lim
        o == offset - Len(search)
    IN  search_loop(data, search, o, l)

stream_reverse_search(data, search, offset, lim) ==
    LET l == IF lim = -1 THEN TenMiB ELSE lim
        o == offset - Len(search)
    IN  search_loop(data, search, o, l)
-----------------------------------------------------------------------------
(* The index parser (ddi_utils.py).  A reader takes the buffer and the     *)
(* cursor and yields [ok, pos, val]: ok is FALSE when the reader raises    *)
(* (a failed assert, a short struct.unpack), pos is the cursor after it.   *)

Fail == [ok |-> FALSE, pos |-> 0, val |-> <<>>]
Ok(p, v) == [ok |-> TRUE, pos |-> p, val |-> v]

\* read_str: a u32 size, then that many bytes
read_str(buf, p) ==
    LET str_size == from_bytes(Rd(buf, p, 4))
    IN  [str |-> Rd(buf, p + 4, str_size), pos |-> p + 4 + str_size]

\* the cursor after read_str
str_end(buf, p) == read_str(buf, p).pos

\* str_to_data
str_to_data(s) == to_bytes(Len(s), 4) \o s

\* read_arr: 'ARR ', an unchecked u32, u64 == 1, and the 4 bytes returned
read_arr(buf, p) ==
    IF Rd(buf, p, 4) = ARR_ /\ IntIs(Rd(buf, p + 8, 8), 1)
    THEN Ok(p + 20, Rd(buf, p + 16, 4))
    ELSE Fail

\* struct.unpack('<f', read(4)): the four bytes of the float; raises when short
HasFloats(buf, p, n) == p + 4 * n <= Len(buf)

\* for k in range(epr_num): site = tell(); offset = u64
epr_list_at(buf, p, epr_num) ==
    [k \in 1..epr_num |->
        epr_str(p + 8 * (k - 1), from_bytes(Rd(buf, p + 8 * (k - 1), 8)))]

\* one STAp (read_sta, the body of the inner loop)
read_stap(buf, p) ==
    LET q1 == str_end(buf, p + 78)
        q2 == str_end(buf, q1 + 16)
        epr_num == from_bytes(Rd(buf, q2 + 4, 4))
        q3 == q2 + 8 + 8 * epr_num
        snd_offset_pos == q3 + 10
    IN  IF /\ IntIs(Rd(buf, p, 8), 0)
           /\ Rd(buf, p + 8, 4) = STAp
           /\ IntIs(Rd(buf, p + 16, 4), 0)
           /\ IntIs(Rd(buf, p + 20, 4), 1)
           /\ HasFloats(buf, p + 34, 5)
           /\ IntIs(Rd(buf, p + 54, 4), 0)
           /\ IntIs(Rd(buf, p + 58, 4), 2)
           /\ IntIs(Rd(buf, p + 62, 8), 61)
           /\ Rd(buf, p + 70, 4) = EMPT
           /\ read_str(buf, p + 78).str = S_SND
           /\ IntIs(Rd(buf, q1 + 4, 4), 0)
           /\ Rd(buf, q1 + 8, 4) = EMPT
           /\ read_str(buf, q1 + 16).str = S_EpR
           /\ Rd(buf, q3 + 4, 2) = <<1, 0>>
        THEN [ok |-> TRUE, pos |-> str_end(buf, q3 + 34),
              idx |-> read_str(buf, q3 + 34).str,
              val |-> [unknown1 |-> bytes_to_str(Rd(buf, p + 24, 10)),
                       pitch1 |-> Rd(buf, p + 34, 4),
                       pitch2 |-> Rd(buf, p + 38, 4),
                       unknown2 |-> Rd(buf, p + 42, 4),
                       dynamics |-> Rd(buf, p + 46, 4),
                       unknown3 |-> Rd(buf, p + 50, 4),
                       snd_length |-> from_bytes(Rd(buf, q1, 4)),
                       epr |-> epr_list_at(buf, q2 + 8, epr_num),
                       fs |-> from_bytes(Rd(buf, q3, 4)),
                       snd |-> sta_snd_str(snd_offset_pos,
                                           from_bytes(Rd(buf, snd_offset_pos, 8)),
                                           from_bytes(Rd(buf, q3 + 6, 4))),
                       unknown4 |-> bytes_to_str(Rd(buf, q3 + 18, 16))]]
        ELSE [ok |-> FALSE, pos |-> 0, idx |-> <<>>, val |-> <<>>]

\* for j in range(stap_num): ...; assert stap_idx not in stau_data['stap'];
\* r is the STAp just read
RECURSIVE read_staps(_, _, _, _)
staps_next(buf, n, acc, r) ==
    IF ~r.ok \/ DictHas(acc, r.idx) THEN Fail
    ELSE read_staps(buf, r.pos, n - 1, DictPut(acc, r.idx, r.val))
read_staps(buf, p, n, acc) ==
    IF n = 0 THEN Ok(p, acc) ELSE staps_next(buf, n, acc, read_stap(buf, p))

\* one STAu (read_sta, the body of the outer loop); r is its STAp dict
NoStau == [ok |-> FALSE, pos |-> 0, idx |-> 0, val |-> <<>>]
read_stau_end(buf, stau_idx, r) ==
    IF ~r.ok THEN NoStau
    ELSE [ok |-> TRUE, pos |-> str_end(buf, r.pos), idx |-> stau_idx,
          val |-> [phoneme |-> read_str(buf, r.pos).str,
                   stap |-> Sorted(r.val, StrLess)]]
read_stau(buf, p) ==
    IF /\ IntIs(Rd(buf, p, 8), 0)
       /\ Rd(buf, p + 8, 4) = STAu
       /\ IntIs(Rd(buf, p + 16, 4), 1)
       /\ IntIs(Rd(buf, p + 20, 4), 0)
       /\ Rd(buf, p + 28, 8) = FF(8)
    THEN read_stau_end(buf, from_bytes(Rd(buf, p + 24, 4)),
                       read_staps(buf, p + 40, from_bytes(Rd(buf, p + 36, 4)), <<>>))
    ELSE NoStau

RECURSIVE read_staus(_, _, _, _)
staus_next(buf, n, acc, r) ==
    IF ~r.ok THEN Fail
    ELSE read_staus(buf, r.pos, n - 1, DictPut(acc, r.idx, r.val))
read_staus(buf, p, n, acc) ==
    IF n = 0 THEN Ok(p, acc) ELSE staus_next(buf, n, acc, read_stau(buf, p))

\* read_sta; r is the dict of its STAu
read_sta_end(buf, r) ==
    IF /\ r.ok
       /\ read_str(buf, r.pos).str = S_normal
       /\ read_str(buf, str_end(buf, r.pos)).str = S_stationary
    THEN Ok(str_end(buf, str_end(buf, r.pos)), Sorted(r.val, IntLess))
    ELSE Fail
read_sta(buf, p) ==
    IF /\ IntIs(Rd(buf, p, 8), 0)
       /\ read_arr(buf, p + 8).ok /\ IntIs(read_arr(buf, p + 8).val, 1)
       /\ IntIs(Rd(buf, p + 28, 8), 0)
       /\ Rd(buf, p + 36, 4) = STA_
       /\ IntIs(Rd(buf, p + 44, 8), 1)
    THEN read_sta_end(buf, read_staus(buf, p + 56, from_bytes(Rd(buf, p + 52, 4)), <<>>))
    ELSE Fail
-----------------------------------------------------------------------------
(* The articulation section: read_art and the recursive read_art_block *)

\* the EpR list of an ARTp read at q (read_art_block, the body of the try
\* and of the except): epr_num, the offsets, fs, and the asserted 01 00
epr_layout(buf, q) ==
    LET epr_num == from_bytes(Rd(buf, q, 4))
        e == q + 4 + 8 * epr_num
    IN  [ok |-> Rd(buf, e + 4, 2) = <<1, 0>>, epr_num |-> epr_num,
         first |-> q + 4, fs_pos |-> e, pos |-> e + 6]

\* artp_epr without the except branch: the first layout or none
artp_epr_no_retry(buf, loc) == epr_layout(buf, loc) @@ [retried |-> FALSE]

\* try: the layout at loc; except AssertionError: seek(loc), skip 4 bytes,
\* and the same layout again
artp_epr(buf, loc) ==
    IF epr_layout(buf, loc).ok
    THEN epr_layout(buf, loc) @@ [retried |-> FALSE]
    ELSE epr_layout(buf, loc + 4) @@ [retried |-> TRUE]

\* the frame-alignment table of an ARTp
frame_align_of(align_bytes, align_length) ==
    IF align_length > 4
    THEN [g \in 1..from_bytes(Rd(align_bytes, 0, 4)) |->
            [start  |-> from_bytes(Rd(align_bytes, 4 + 16 * (g - 1), 4)),
             end    |-> from_bytes(Rd(align_bytes, 4 + 16 * (g - 1) + 4, 4)),
             start2 |-> from_bytes(Rd(align_bytes, 4 + 16 * (g - 1) + 8, 4)),
             end2   |-> from_bytes(Rd(align_bytes, 4 + 16 * (g - 1) + 12, 4))]]
    ELSE <<[i \in 1..((Len(align_bytes) + 3) \div 4) |->
                from_bytes(Rd(align_bytes, 4 * (i - 1), 4))]>>

NoArtp == [ok |-> FALSE, pos |-> 0, idx |-> 0, val |-> <<>>, retried |-> FALSE]

\* self.ddi_data.read(align_length): a negative length reads to the end
read_align(buf, t, align_length) ==
    IF align_length < 0 THEN Rd(buf, t, Len(buf)) ELSE Rd(buf, t, align_length)

\* one ARTp from its EpR list on: e is the list as artp_epr read it, q1 the
\* cursor after 'SND', align_length is find(b'default') - 4 on the next
\* 1024 bytes, align_bytes the table
read_artp_end(buf, p, q1, e, align_length, align_bytes) ==
    IF e.ok /\ read_str(buf, e.pos + 20 + Len(align_bytes)).str = S_default
    THEN [ok |-> TRUE, pos |-> str_end(buf, e.pos + 20 + Len(align_bytes)),
          retried |-> e.retried,
          idx |-> from_bytes(Rd(buf, p + 58, 8)),
          val |-> [dev_artp |-> fmt_fill(from_bytes(Rd(buf, p, 8)), 8),
                   unknown1 |-> bytes_to_str(Rd(buf, p + 24, 10)),
                   pitch1 |-> Rd(buf, p + 34, 4),
                   pitch2 |-> Rd(buf, p + 38, 4),
                   unknown2 |-> Rd(buf, p + 42, 4),
                   dynamics |-> Rd(buf, p + 46, 4),
                   unknown3 |-> Rd(buf, p + 50, 4),
                   snd_unknown |-> fmt_zero(from_bytes(Rd(buf, q1, 4)), 8),
                   epr |-> epr_list_at(buf, e.first, e.epr_num),
                   fs |-> from_bytes(Rd(buf, e.fs_pos, 4)),
                   snd |-> art_snd_str(e.pos + 4,
                                       from_bytes(Rd(buf, e.pos + 4, 8)) - 18,
                                       from_bytes(Rd(buf, e.pos, 4))),
                   snd_start |-> art_snd_str(e.pos + 12,
                                             from_bytes(Rd(buf, e.pos + 12, 8)) - 18,
                                             from_bytes(Rd(buf, e.pos, 4))),
                   frame_align |-> frame_align_of(align_bytes, align_length),
                   \* not a key of the dict: the table as it was read
                   align_bytes |-> align_bytes]]
    ELSE [NoArtp EXCEPT !.retried = e.retried]

read_artp_align(buf, p, q1, e, align_length) ==
    read_artp_end(buf, p, q1, e, align_length, read_align(buf, e.pos + 20, align_length))

read_artp_epr(buf, p, q1, e) ==
    read_artp_align(buf, p, q1, e, find(Rd(buf, e.pos + 20, 1024), S_default) - 4)

\* one ARTp (read_art_block, the body of the innermost loop)
read_artp(buf, p) ==
    LET q1 == str_end(buf, p + 74)
    IN  IF /\ Rd(buf, p + 8, 4) = ARTp
           /\ IntIs(Rd(buf, p + 16, 4), 0)
           /\ IntIs(Rd(buf, p + 20, 4), 1)
           /\ HasFloats(buf, p + 34, 5)
           /\ IntIs(Rd(buf, p + 54, 4), 2)
           /\ Rd(buf, p + 66, 4) = EMPT
           /\ read_str(buf, p + 74).str = S_SND
           /\ IntIs(Rd(buf, q1 + 4, 4), 0)
           /\ Rd(buf, q1 + 8, 4) = EMPT
           /\ read_str(buf, q1 + 16).str = S_EpR
        THEN read_artp_epr(buf, p, q1, artp_epr(buf, str_end(buf, q1 + 16)))
        ELSE NoArtp

\* for j in range(artp_num): ...; assert artp_idx not in artu_data['artp'];
\* nretry counts the ARTp that took the except branch, r is the ARTp just read
RECURSIVE read_artps(_, _, _, _, _)
artps_next(buf, n, acc, k, r) ==
    IF ~r.ok \/ DictHas(acc, r.idx) THEN Fail @@ [nretry |-> k]
    ELSE read_artps(buf, r.pos, n - 1, DictPut(acc, r.idx, r.val), k)
artps_count(buf, n, acc, nretry, r) ==
    artps_next(buf, n, acc, nretry + (IF r.retried THEN 1 ELSE 0), r)
read_artps(buf, p, n, acc, nretry) ==
    IF n = 0 THEN Ok(p, acc) @@ [nretry |-> nretry]
    ELSE artps_count(buf, n, acc, nretry, read_artp(buf, p))

\* an ARTu child of an ART block, from the byte after its tag; r is its
\* ARTp dict
NoArtu == [ok |-> FALSE, pos |-> 0, idx |-> 0, val |-> <<>>, nretry |-> 0]
read_artu_end(buf, artu_idx, r) ==
    IF ~r.ok THEN [NoArtu EXCEPT !.nretry = r.nretry]
    ELSE [ok |-> TRUE, pos |-> str_end(buf, r.pos), idx |-> artu_idx,
          nretry |-> r.nretry,
          val |-> [phoneme |-> read_str(buf, r.pos).str,
                   artp |-> Sorted(r.val, IntLess)]]
read_artu(buf, p) ==
    IF /\ IntIs(Rd(buf, p + 4, 4), 0)
       /\ IntIs(Rd(buf, p + 8, 4), 0)
       /\ (IntIs(Rd(buf, p + 16, 8), 0) \/ IntIs(Rd(buf, p + 16, 8), 1))
       /\ Rd(buf, p + 28, 4) = FF(4)
    THEN read_artu_end(buf, from_bytes(Rd(buf, p + 12, 4)),
                       read_artps(buf, p + 36, from_bytes(Rd(buf, p + 32, 4)), <<>>, 0))
    ELSE NoArtu

NoBlock == [ok |-> FALSE, pos |-> 0, idx |-> 0, val |-> <<>>, nretry |-> 0]

RECURSIVE read_art_block(_, _)
RECURSIVE read_children(_, _, _, _, _, _, _)

BadChildren(artu, art, seen, nretry) ==
    [ok |-> FALSE, pos |-> 0, artu |-> artu, art |-> art, seen |-> seen,
     nretry |-> nretry]

\* a child that is an 'ART ' block: art_data['art'][sub_art_idx] = sub_art_data
child_art(buf, n, artu, art, seen, nretry, sub) ==
    IF ~sub.ok THEN BadChildren(artu, art, seen, nretry + sub.nretry)
    ELSE read_children(buf, sub.pos, n - 1, artu, DictPut(art, sub.idx, sub.val),
                       Append(seen, [tag |-> ART_, idx |-> sub.idx, val |-> sub.val]),
                       nretry + sub.nretry)

\* a child that is an ARTu: art_data['artu'][artu_idx] = artu_data
child_artu(buf, n, artu, art, seen, nretry, u) ==
    IF ~u.ok THEN BadChildren(artu, art, seen, nretry + u.nretry)
    ELSE read_children(buf, u.pos, n - 1, DictPut(artu, u.idx, u.val), art,
                       Append(seen, [tag |-> ARTu, idx |-> u.idx, val |-> u.val]),
                       nretry + u.nretry)

\* for i in range(artu_num): the children of an ART block, by their tag.
\* seen lists the children consumed so far (not in the code)
read_children(buf, p, n, artu, art, seen, nretry) ==
    IF n = 0 THEN [ok |-> TRUE, pos |-> p, artu |-> artu, art |-> art,
                   seen |-> seen, nretry |-> nretry]
    ELSE IF ~IntIs(Rd(buf, p, 8), 0) THEN BadChildren(artu, art, seen, nretry)
    ELSE IF Rd(buf, p + 8, 4) = ART_
    THEN child_art(buf, n, artu, art, seen, nretry, read_art_block(buf, p + 12))
    ELSE IF Rd(buf, p + 8, 4) = ARTu
    THEN child_artu(buf, n, artu, art, seen, nretry, read_artu(buf, p + 12))
    ELSE BadChildren(artu, art, seen, nretry)

\* read_art_block after its children: r is what read_children consumed
read_art_block_end(buf, art_idx, artu_num, r) ==
    IF ~r.ok THEN [NoBlock EXCEPT !.nretry = r.nretry]
    ELSE [ok |-> TRUE, pos |-> str_end(buf, r.pos), idx |-> art_idx,
          nretry |-> r.nretry,
          \* an empty 'art' or 'artu' is deleted from the dict: a key
          \* is present exactly when its dict here is not empty
          val |-> [phoneme |-> read_str(buf, r.pos).str,
                   artu |-> Sorted(r.artu, IntLess),
                   art |-> Sorted(r.art, IntLess),
                   \* not keys of the dict: what the block declared and read
                   artu_num |-> artu_num,
                   seen |-> r.seen]]

\* read_art_block, from the byte after the 'ART ' tag
read_art_block(buf, p) ==
    IF IntIs(Rd(buf, p + 4, 4), 1) /\ IntIs(Rd(buf, p + 8, 4), 0)
    THEN read_art_block_end(buf, from_bytes(Rd(buf, p + 12, 4)),
                            from_bytes(Rd(buf, p + 16, 4)),
                            read_children(buf, p + 20, from_bytes(Rd(buf, p + 16, 4)),
                                          <<>>, <<>>, <<>>, 0))
    ELSE NoBlock

\* read_art, the while(True) loop: a sentinel and an 'ART ' block, or the
\* closing 'articulation'; b is the block just read
RECURSIVE read_art_loop(_, _, _, _)
art_loop_next(buf, acc, nretry, b) ==
    IF ~b.ok THEN Fail @@ [nretry |-> nretry + b.nretry]
    ELSE read_art_loop(buf, b.pos, DictPut(acc, b.idx, b.val), nretry + b.nretry)
read_art_loop(buf, p, acc, nretry) ==
    IF Rd(buf, p, 8) # ZZ(8) /\ Rd(buf, p, 8) # FF(8)
    THEN \* offset = tell() - 8; seek(offset)
         IF p + Len(Rd(buf, p, 8)) - 8 >= 0
            /\ read_str(buf, p + Len(Rd(buf, p, 8)) - 8).str = S_articulation
         THEN Ok(str_end(buf, p + Len(Rd(buf, p, 8)) - 8), Sorted(acc, IntLess))
              @@ [nretry |-> nretry]
         ELSE Fail @@ [nretry |-> nretry]
    ELSE IF Rd(buf, p + 8, 4) # ART_ THEN Fail @@ [nretry |-> nretry]
    ELSE art_loop_next(buf, acc, nretry, read_art_block(buf, p + 12))

\* read_art
read_art(buf, p) ==
    IF read_arr(buf, p + 8).ok /\ ~IntIs(read_arr(buf, p + 8).val, 0)
    THEN read_art_loop(buf, p + 28, <<>>, 0)
    ELSE Fail @@ [nretry |-> 0]
-----------------------------------------------------------------------------
(* The voice-quality section: read_vqm *)

\* int(s) on a decimal string; sign accepted, anything else raises
IsDigit(b) == b >= 48 /\ b <= 57
int10_ok(s) ==
    LET body == IF s # <<>> /\ (s[1] = 45 \/ s[1] = 43) THEN Tail(s) ELSE s
    IN  body # <<>> /\ \A i \in 1..Len(body) : IsDigit(body[i])
RECURSIVE dec(_)
dec(s) == IF s = <<>> THEN 0 ELSE 10 * dec(SubSeq(s, 1, Len(s) - 1)) + (s[Len(s)] - 48)
int10(s) == IF s[1] = 45 THEN -dec(Tail(s)) ELSE IF s[1] = 43 THEN dec(Tail(s)) ELSE dec(s)

NoVqmp == [ok |-> FALSE, pos |-> 0, idx |-> 0, val |-> <<>>]

\* one VQMp (read_vqm, the body of the loop)
read_vqmp(buf, p) ==
    LET epr_num == from_bytes(Rd(buf, p + 62, 4))
        q3 == p + 66 + 8 * epr_num
        ddi_snd_offset == q3 + 10
    IN  IF /\ Rd(buf, p, 8) = FF(8)
           /\ Rd(buf, p + 8, 4) = VQMp
           /\ IntIs(Rd(buf, p + 12, 4), 0)
           /\ IntIs(Rd(buf, p + 16, 4), 0)
           /\ IntIs(Rd(buf, p + 20, 4), 1)
           /\ HasFloats(buf, p + 34, 5)
           /\ IntIs(Rd(buf, p + 54, 4), 0)
           /\ Rd(buf, p + 58, 4) = FF(4)
           /\ Rd(buf, q3 + 4, 2) = <<1, 0>>
           /\ Rd(buf, q3 + 18, 16) = FF(16)
           /\ int10_ok(read_str(buf, q3 + 34).str)
        THEN [ok |-> TRUE, pos |-> str_end(buf, q3 + 34),
              idx |-> int10(read_str(buf, q3 + 34).str),
              val |-> [unknown1 |-> bytes_to_str(Rd(buf, p + 24, 10)),
                       pitch1 |-> Rd(buf, p + 34, 4),
                       pitch2 |-> Rd(buf, p + 38, 4),
                       unknown2 |-> Rd(buf, p + 42, 4),
                       dynamics |-> Rd(buf, p + 46, 4),
                       unknown3 |-> Rd(buf, p + 50, 4),
                       epr |-> epr_list_at(buf, p + 66, epr_num),
                       fs |-> from_bytes(Rd(buf, q3, 4)),
                       snd |-> sta_snd_str(ddi_snd_offset,
                                           from_bytes(Rd(buf, ddi_snd_offset, 8)),
                                           from_bytes(Rd(buf, q3 + 6, 4)))]]
        ELSE NoVqmp

\* for i in range(vqmp_num): vqm_data[vqmp_idx] = vqmp_data; r is the VQMp
\* just read
RECURSIVE read_vqmps(_, _, _, _)
vqmps_next(buf, n, acc, r) ==
    IF ~r.ok THEN Fail
    ELSE read_vqmps(buf, r.pos, n - 1, DictPut(acc, r.idx, r.val))
read_vqmps(buf, p, n, acc) ==
    IF n = 0 THEN Ok(p, acc) ELSE vqmps_next(buf, n, acc, read_vqmp(buf, p))

\* read_vqm; r is the dict of its VQMp
read_vqm_end(buf, r) ==
    IF /\ r.ok
       /\ read_str(buf, r.pos).str = S_GROWL
       /\ read_str(buf, str_end(buf, r.pos)).str = S_vqm
    THEN Ok(str_end(buf, str_end(buf, r.pos)), r.val)
    ELSE Fail
read_vqm(buf, p) ==
    IF /\ Rd(buf, p, 8) = FF(8)
       /\ Rd(buf, p + 8, 4) = VQM_
       /\ IntIs(Rd(buf, p + 12, 4), 0)
       /\ IntIs(Rd(buf, p + 16, 4), 1)
       /\ IntIs(Rd(buf, p + 20, 4), 0)
       /\ IntIs(Rd(buf, p + 24, 4), 1)
       /\ Rd(buf, p + 28, 8) = FF(8)
       /\ Rd(buf, p + 36, 4) = VQMu
       /\ IntIs(Rd(buf, p + 40, 4), 0)
       /\ IntIs(Rd(buf, p + 44, 4), 1)
       /\ IntIs(Rd(buf, p + 48, 4), 0)
       /\ StripHigh(Rd(buf, p + 56, 4)) = StripHigh(Rd(buf, p + 52, 4))
    THEN read_vqm_end(buf, read_vqmps(buf, p + 60, from_bytes(Rd(buf, p + 52, 4)), <<>>))
    ELSE Fail

-----------------------------------------------------------------------------
(* read_dbv, read_tdb, read_phdc *)

read_dbv(buf, p) ==
    IF /\ IntIs(Rd(buf, p, 8), 0)
       /\ Rd(buf, p + 8, 4) = DBV_
       /\ IntIs(Rd(buf, p + 16, 8), 1)
    THEN Ok(p + 28, <<>>)
    ELSE Fail

str_list == <<S_pitch, S_dynamics, S_opening>>

\* for j in range(str_num): FF*8, an ARR of value 0, and str_list[j]
RECURSIVE read_tmm_strs(_, _, _)
read_tmm_strs(buf, p, j) ==
    IF j > 3 THEN Ok(p, <<>>)
    ELSE LET arr == read_arr(buf, p + 8)
             s == read_str(buf, p + 28)
         IN  IF /\ Rd(buf, p, 8) = FF(8)
                /\ arr.ok /\ IntIs(arr.val, 0)
                /\ s.str = str_list[j]
             THEN read_tmm_strs(buf, s.pos, j + 1)
             ELSE Fail

RECURSIVE read_tmms(_, _, _, _)
read_tmms(buf, p, n, acc) ==
    IF n = 0 THEN Ok(p, acc)
    ELSE IF /\ Rd(buf, p, 8) = FF(8)
            /\ Rd(buf, p + 8, 4) = TMM_
            /\ IntIs(Rd(buf, p + 16, 8), 1)
            /\ IntIs(Rd(buf, p + 28, 4), 3)
         THEN LET idx == from_bytes(Rd(buf, p + 24, 4))
                  r == read_tmm_strs(buf, p + 32, 1)
                  ph == read_str(buf, r.pos)
              IN  IF ~r.ok THEN Fail
                  ELSE read_tmms(buf, ph.pos, n - 1, DictPut(acc, idx, ph.str))
         ELSE Fail

read_tdb(buf, p) ==
    IF /\ Rd(buf, p, 8) = FF(8)
       /\ Rd(buf, p + 8, 4) = TDB_
       /\ IntIs(Rd(buf, p + 16, 8), 1)
    THEN LET tmm_num == from_bytes(Rd(buf, p + 24, 4))
             r == read_tmms(buf, p + 28, tmm_num, <<>>)
             e == read_str(buf, r.pos)
         IN  IF r.ok /\ e.str = S_timbre THEN Ok(e.pos, r.val) ELSE Fail
    ELSE Fail

\* bytes.decode().strip('\x00'): leading and trailing NUL bytes removed
RECURSIVE lstrip0(_)
lstrip0(s) == IF s # <<>> /\ s[1] = 0 THEN lstrip0(Tail(s)) ELSE s
strip0(s) == lstrip0(StripHigh(s))

\* for i in range(phoneme_num): a 31-byte slot, the last byte the list 0 or 1
RECURSIVE read_phonemes(_, _, _, _)
read_phonemes(buf, p, n, acc) ==
    IF n = 0 THEN Ok(p, acc)
    ELSE LET bytes_str == Rd(buf, p, 31)
             flag == bytes_str[Len(bytes_str)]
             real_data == strip0(SubSeq(bytes_str, 1, Len(bytes_str) - 1))
         IN  IF bytes_str = <<>> \/ flag \notin {0, 1} THEN Fail
             ELSE read_phonemes(buf, p + 31, n - 1,
                                [acc EXCEPT ![flag + 1] = Append(@, real_data)])

\* for j in range(temp_num): idx, read_str
RECURSIVE read_phg2_items(_, _, _, _)
read_phg2_items(buf, p, n, acc) ==
    IF n = 0 THEN Ok(p, acc)
    ELSE LET s == read_str(buf, p + 4)
         IN  read_phg2_items(buf, s.pos, n - 1,
                             DictPut(acc, from_bytes(Rd(buf, p, 4)), s.str))

\* for i in range(phg2_category_num): key, items, u32 == 0
RECURSIVE read_phg2(_, _, _, _)
read_phg2(buf, p, n, acc) ==
    IF n = 0 THEN Ok(p, acc)
    ELSE LET key == read_str(buf, p)
             temp_num == from_bytes(Rd(buf, key.pos, 4))
             r == read_phg2_items(buf, key.pos + 4, temp_num, <<>>)
         IN  IF IntIs(Rd(buf, r.pos, 4), 0)
             THEN read_phg2(buf, r.pos + 4, n - 1, DictPut(acc, key.str, r.val))
             ELSE Fail

\* the 8-byte values of one category, from offset on
RECURSIVE read_cat_values(_, _, _)
read_cat_values(cb, offset, acc) ==
    IF offset < Len(cb) /\ cb[offset + 1] = 0
    THEN IF offset + 7 >= Len(cb) THEN Fail          \* IndexError
         ELSE IF cb[offset + 8] = 64
         THEN LET value == Rd(cb, offset, 7)
                  nz == {i \in 0..6 : value[i + 1] # 0}
                  start_idx == IF nz = {} THEN 0
                               ELSE CHOOSE i \in nz : \A j \in nz : i <= j
              IN  read_cat_values(cb, offset + 8,
                      Append(acc, bytes_to_str(Rd(value, start_idx, 7))))
         ELSE IF IntIs(Rd(cb, offset, 8), 0)
         THEN read_cat_values(cb, offset + 8, Append(acc, <<>>))
         ELSE Fail
    ELSE Ok(offset, acc)

\* for i in range(category_num): the key, u32 == 4, the values
RECURSIVE read_categories(_, _, _, _)
read_categories(cb, offset, n, acc) ==
    IF n = 0 THEN Ok(offset, acc)
    ELSE LET key == strip0(Rd(cb, offset, 32))
             r == read_cat_values(cb, offset + 36, <<>>)
         IN  IF IntIs(Rd(cb, offset + 32, 4), 4) /\ r.ok
             THEN read_categories(cb, r.pos, n - 1, DictPut(acc, key, r.val))
             ELSE Fail

read_phdc(buf, p) ==
    IF Rd(buf, p, 4) = PHDC /\ IntIs(Rd(buf, p + 8, 4), 4)
    THEN LET phdc_size == from_bytes(Rd(buf, p + 4, 4))
             phoneme_num == from_bytes(Rd(buf, p + 12, 4))
             ph == read_phonemes(buf, p + 16, phoneme_num, <<<<>>, <<>>>>)
             g == p + 16 + 31 * phoneme_num
             phg2_size == from_bytes(Rd(buf, g + 4, 4))
             phg2_category_num == from_bytes(Rd(buf, g + 8, 4))
             pg == read_phg2(buf, g + 12, phg2_category_num, <<>>)
             category_num == from_bytes(Rd(buf, pg.pos, 4))
             category_size == phdc_size - phg2_size - 16 - 31 * phoneme_num - 4
             category_bytes == IF category_size < 0 THEN Rd(buf, pg.pos + 4, Len(buf))
                               ELSE Rd(buf, pg.pos + 4, category_size)
             cat == read_categories(category_bytes, 0, category_num, <<>>)
         IN  IF /\ ph.ok
                /\ Rd(buf, g, 4) = PHG2
                /\ pg.ok
                /\ cat.ok /\ cat.pos = Len(category_bytes)
             THEN Ok(pg.pos + 4 + Len(category_bytes),
                     [phoneme |-> ph.val, phg2 |-> pg.val, category |-> cat.val])
             ELSE Fail
    ELSE Fail
-----------------------------------------------------------------------------
(* DDIModel.read: the sections in the order read() visits them, then the   *)
(* conversion to ddi_data_dict.  An exception anywhere ends read().        *)

\* file.seek(p) raises ValueError on a negative position
SeekOk(p) == p >= 0

\* read(), lines 110-123
ReadPhdc ==
    /\ pc = "phdc"
    /\ LET phdc_offset == find(ddi_bytes, PHDC)
           r == read_phdc(ddi_bytes, phdc_offset)
       IN  IF phdc_offset >= 0
           THEN IF r.ok
                THEN /\ phdc_data' = r.val
                     /\ offset_map' = DictPut(offset_map, "phdc", <<phdc_offset, r.pos>>)
                     /\ ddi_pos' = r.pos
                     /\ pc' = "tdb"
                ELSE /\ pc' = "failed"
                     /\ UNCHANGED <<phdc_data, offset_map, ddi_pos>>
           ELSE /\ pc' = "tdb"
                /\ UNCHANGED <<phdc_data, offset_map, ddi_pos>>
    /\ UNCHANGED <<ddi_bytes, tdb_data, sta_data, art_data, vqm_data, ddi_data_dict,
                   recovered, searchVars, packVars, toolVars, input>>

\* read(), lines 125-137
ReadTdb ==
    /\ pc = "tdb"
    /\ LET tdb_offset == find(ddi_bytes, FF(8) \o TDB_)
           r == read_tdb(ddi_bytes, tdb_offset)
       IN  IF tdb_offset >= 0
           THEN IF r.ok
                THEN /\ tdb_data' = r.val
                     /\ offset_map' = DictPut(offset_map, "tdb", <<tdb_offset, r.pos>>)
                     /\ ddi_pos' = r.pos
                     /\ pc' = "dbv"
                ELSE /\ pc' = "failed"
                     /\ UNCHANGED <<tdb_data, offset_map, ddi_pos>>
           ELSE /\ pc' = "dbv"
                /\ UNCHANGED <<tdb_data, offset_map, ddi_pos>>
    /\ UNCHANGED <<ddi_bytes, phdc_data, sta_data, art_data, vqm_data, ddi_data_dict,
                   recovered, searchVars, packVars, toolVars, input>>

\* read(), lines 139-143
ReadDbv ==
    /\ pc = "dbv"
    /\ LET dbv_offset == find(ddi_bytes, ZZ(8) \o DBV_)
           r == read_dbv(ddi_bytes, dbv_offset)
       IN  IF SeekOk(dbv_offset) /\ r.ok
           THEN /\ offset_map' = DictPut(offset_map, "dbv", <<dbv_offset, r.pos>>)
                /\ ddi_pos' = r.pos
                /\ pc' = "sta"
           ELSE /\ pc' = "failed"
                /\ UNCHANGED <<offset_map, ddi_pos>>
    /\ UNCHANGED <<ddi_bytes, phdc_data, tdb_data, sta_data, art_data, vqm_data,
                   ddi_data_dict, recovered, searchVars, packVars, toolVars, input>>

\* read(), lines 145-157
ReadSta ==
    /\ pc = "sta"
    /\ LET found == find(ddi_bytes, ZZ(8) \o STA_)
           sta_offset == reverse_search(ddi_bytes, ARR_, found, -1) - 8
           r == read_sta(ddi_bytes, sta_offset)
       IN  IF SeekOk(sta_offset) /\ r.ok
           THEN /\ sta_data' = r.val
                /\ offset_map' = DictPut(offset_map, "sta", <<sta_offset, r.pos>>)
                /\ ddi_pos' = r.pos
                /\ pc' = "art"
           ELSE /\ pc' = "failed"
                /\ UNCHANGED <<sta_data, offset_map, ddi_pos>>
    /\ UNCHANGED <<ddi_bytes, phdc_data, tdb_data, art_data, vqm_data,
                   ddi_data_dict, recovered, searchVars, packVars, toolVars, input>>

\* read(), lines 159-171
ReadArt ==
    /\ pc = "art"
    /\ LET found == find(ddi_bytes, ZZ(8) \o ART_)
           art_offset == reverse_search(ddi_bytes, ARR_, found, -1) - 8
           r == read_art(ddi_bytes, art_offset)
       IN  IF SeekOk(art_offset)
           THEN IF r.ok
                THEN /\ art_data' = r.val
                     /\ offset_map' = DictPut(offset_map, "art", <<art_offset, r.pos>>)
                     /\ ddi_pos' = r.pos
                     /\ recovered' = recovered + r.nretry
                     /\ pc' = "vqm"
                ELSE /\ pc' = "failed"
                     /\ recovered' = recovered + r.nretry
                     /\ UNCHANGED <<art_data, offset_map, ddi_pos>>
           ELSE /\ pc' = "failed"
                /\ UNCHANGED <<art_data, offset_map, ddi_pos, recovered>>
    /\ UNCHANGED <<ddi_bytes, phdc_data, tdb_data, sta_data, vqm_data,
                   ddi_data_dict, searchVars, packVars, toolVars, input>>

\* read(), lines 173-186
ReadVqm ==
    /\ pc = "vqm"
    /\ LET vqm_offset == find(ddi_bytes, FF(8) \o VQM_)
           r == read_vqm(ddi_bytes, vqm_offset)
       IN  IF vqm_offset # -1
           THEN IF r.ok
                THEN /\ vqm_data' = Some(r.val)
                     /\ offset_map' = DictPut(offset_map, "vqm", <<vqm_offset, r.pos>>)
                     /\ ddi_pos' = r.pos
                     /\ pc' = "convert"
                ELSE /\ pc' = "failed"
                     /\ vqm_data' = None
                     /\ UNCHANGED <<offset_map, ddi_pos>>
           ELSE /\ vqm_data' = None
                /\ pc' = "convert"
                /\ UNCHANGED <<offset_map, ddi_pos>>
    /\ UNCHANGED <<ddi_bytes, phdc_data, tdb_data, sta_data, art_data,
                   ddi_data_dict, recovered, searchVars, packVars, toolVars, input>>

\* ---- the conversion, read() lines 189-239

\* {'snd': .., 'epr': .., 'pitch': ..} of every unit of a dict of STAp or VQMp
unit_items(units) ==
    [i \in 1..Len(units) |->
        [snd |-> units[i].v.snd, epr |-> units[i].v.epr, pitch |-> units[i].v.pitch1]]

\* the same of every ARTp of an ARTu, with 'snd_start'
artp_items(artps) ==
    [i \in 1..Len(artps) |->
        [snd |-> artps[i].v.snd, snd_start |-> artps[i].v.snd_start,
         epr |-> artps[i].v.epr, pitch |-> artps[i].v.pitch1]]

\* sta_dict[stau['phoneme']] = stau_dict, for stau in self.sta_data.values()
RECURSIVE sta_dict_of(_, _, _)
sta_dict_of(staus, i, acc) ==
    IF i > Len(staus) THEN acc
    ELSE sta_dict_of(staus, i + 1,
                     DictPut(acc, staus[i].v.phoneme, unit_items(staus[i].v.stap)))

Join(a, b) == a \o <<32>> \o b

\* art_dict[prefix + ' ' + artu['phoneme']] = [...], for artu in artus
RECURSIVE artu_puts(_, _, _, _)
artu_puts(prefix, artus, i, acc) ==
    IF i > Len(artus) THEN acc
    ELSE artu_puts(prefix, artus, i + 1,
                   DictPut(acc, Join(prefix, artus[i].v.phoneme),
                           artp_items(artus[i].v.artp)))

\* for sub_art in art['art'].values(): its units, under three phonemes
RECURSIVE sub_art_puts(_, _, _, _)
sub_art_puts(prefix, subs, i, acc) ==
    IF i > Len(subs) THEN acc
    ELSE sub_art_puts(prefix, subs, i + 1,
                      artu_puts(Join(prefix, subs[i].v.phoneme), subs[i].v.artu, 1, acc))

\* for art in self.art_data.values()
RECURSIVE art_dict_of(_, _, _)
art_dict_of(arts, i, acc) ==
    IF i > Len(arts) THEN acc
    ELSE LET a == arts[i].v
             own == artu_puts(a.phoneme, a.artu, 1, acc)
         IN  art_dict_of(arts, i + 1, sub_art_puts(a.phoneme, a.art, 1, own))

\* convert with the 'vqm' entry made whether or not a VQM section was found
convert_vqm_always(sta, art, vqm) ==
    <<[k |-> "vqm", v |-> unit_items(vqm.dict)],
      [k |-> "sta", v |-> Sorted(sta_dict_of(sta, 1, <<>>), StrLess)],
      [k |-> "art", v |-> Sorted(art_dict_of(art, 1, <<>>), StrLess)]>>

convert(sta, art, vqm) ==
    LET base == <<[k |-> "sta", v |-> Sorted(sta_dict_of(sta, 1, <<>>), StrLess)],
                  [k |-> "art", v |-> Sorted(art_dict_of(art, 1, <<>>), StrLess)]>>
    IN  IF vqm # None
        THEN <<[k |-> "vqm", v |-> unit_items(vqm.dict)]>> \o base
        ELSE base

Convert ==
    /\ pc = "convert"
    /\ ddi_data_dict' = convert(sta_data, art_data, vqm_data)
    /\ pc' = "parsed"
    /\ UNCHANGED <<ddi_bytes, ddi_pos, phdc_data, tdb_data, sta_data, art_data,
                   vqm_data, offset_map, recovered, searchVars, packVars, toolVars, input>>

NextRead == ReadPhdc \/ ReadTdb \/ ReadDbv \/ ReadSta \/ ReadArt \/ ReadVqm \/ Convert
-----------------------------------------------------------------------------
(* The parts of the state that a run does not use *)

IdleSearch ==
    /\ ddb_bytes = <<>> /\ snd_offset = 0 /\ limit = 0
    /\ real_snd_offset = -1 /\ rs_result = -1
IdleModel ==
    /\ ddi_bytes = <<>> /\ ddi_pos = 0
    /\ phdc_data = <<>> /\ tdb_data = <<>> /\ sta_data = <<>> /\ art_data = <<>>
    /\ vqm_data = Some(<<>>) /\ offset_map = <<>> /\ ddi_data_dict = <<>>
    /\ recovered = 0
IdlePack ==
    /\ tree = <<>> /\ ddi_data = <<>> /\ ddb_f = NoFile /\ ddi_file = NoFile
    /\ art_file = NoFile
    /\ todo = <<>> /\ log = <<>>

IdleTools ==
    /\ mix = <<>> /\ ext = <<>>
-----------------------------------------------------------------------------
(* Index files under test.  An index is written from a description: the   *)
(* fields the parser reads take the described values, every field the      *)
(* parser asserts takes the asserted value, unless the description names   *)
(* it in `bad': that field is then written with a wrong first byte.        *)

u32(n) == to_bytes(n, 4)
u64(n) == to_bytes(n, 8)

Mangle(bs) == <<33>> \o Tail(bs)
Lit(bad, name, bs) == IF bad = name THEN Mangle(bs) ELSE bs

\* the concatenation of the sequences of ss, by halves
RECURSIVE Cat(_)
Cat(ss) ==
    IF ss = <<>> THEN <<>>
    ELSE IF Len(ss) = 1 THEN ss[1]
    ELSE Cat(SubSeq(ss, 1, Len(ss) \div 2))
         \o Cat(SubSeq(ss, Len(ss) \div 2 + 1, Len(ss)))

U64s(ns) == Cat([i \in 1..Len(ns) |-> u64(ns[i])])

\* struct.pack('<f', 224.0), and the five floats of a unit
F224 == <<0, 0, 96, 67>>
Floats == F224 \o F224 \o ZZ(4) \o ZZ(4) \o ZZ(4)
Fs44100 == <<68, 172, 0, 0>>

\* layout read by read_sta, one STAp
EncStap(s, bad) ==
    Lit(bad, "stap.zero", u64(0)) \o Lit(bad, "stap.tag", STAp) \o u32(0)
    \o u32(0) \o u32(1) \o ZZ(10) \o Floats
    \o u32(0) \o u32(2) \o Lit(bad, "stap.3d", u64(61))
    \o Lit(bad, "stap.empt", EMPT) \o u32(0)
    \o Lit(bad, "stap.snd", str_to_data(S_SND))
    \o u32(s.snd_length) \o u32(0) \o EMPT \o u32(0)
    \o str_to_data(S_EpR) \o FF(4) \o u32(Len(s.epr)) \o U64s(s.epr)
    \o Fs44100 \o Lit(bad, "stap.0100", <<1, 0>>)
    \o u32(s.id) \o u64(s.snd) \o FF(16) \o str_to_data(s.idx)

\* layout read by read_sta, one STAu
EncStau(u, bad) ==
    u64(0) \o Lit(bad, "stau.tag", STAu) \o u32(0) \o u32(1) \o u32(0)
    \o u32(u.idx) \o Lit(bad, "stau.ff", FF(8)) \o u32(Len(u.stap))
    \o Cat([j \in 1..Len(u.stap) |-> EncStap(u.stap[j], bad)])
    \o str_to_data(u.ph)

EncArr(v) == ARR_ \o u32(0) \o u64(1) \o u32(v)

\* layout read by read_sta, the section
EncSta(sta, bad) ==
    u64(0) \o Lit(bad, "sta.arr", EncArr(1)) \o u64(0) \o STA_ \o u32(0)
    \o Lit(bad, "sta.one", u64(1)) \o u32(Len(sta))
    \o Cat([i \in 1..Len(sta) |-> EncStau(sta[i], bad)])
    \o Lit(bad, "sta.normal", str_to_data(S_normal))
    \o str_to_data(S_stationary)

\* layout read by read_art_block, one ARTp; a.tonio: the layout with four
\* more bytes (a.extra) in front of the EpR count
EncArtp(a, bad) ==
    u64(a.dev) \o Lit(bad, "artp.tag", ARTp) \o u32(0)
    \o u32(0) \o u32(1) \o ZZ(10) \o Floats
    \o u32(2) \o u64(a.idx) \o Lit(bad, "artp.empt", EMPT) \o u32(0)
    \o str_to_data(S_SND) \o u32(a.snd_unknown) \o u32(0) \o EMPT \o u32(0)
    \o Lit(bad, "artp.epr", str_to_data(S_EpR))
    \o (IF a.tonio THEN u32(a.extra) ELSE <<>>)
    \o u32(Len(a.epr)) \o U64s(a.epr)
    \o Fs44100 \o Lit(bad, "artp.0100", <<1, 0>>)
    \o u32(a.id) \o u64(a.snd) \o u64(a.snd_start)
    \o a.align \o Lit(bad, "artp.default", str_to_data(S_default))

\* layout read by read_art_block, one ARTu child from its sentinel on
EncArtu(u, bad) ==
    Lit(bad, "child.zero", u64(0)) \o ARTu
    \o u32(0) \o u32(0) \o u32(0) \o u32(u.idx) \o u64(1) \o u32(0)
    \o Lit(bad, "artu.ff", FF(4)) \o u32(Len(u.artp))
    \o Cat([j \in 1..Len(u.artp) |-> EncArtp(u.artp[j], bad)])
    \o str_to_data(u.ph)

\* layout read by read_art_block, an 'ART ' block from the byte after its
\* tag; a child is an ARTu (c.tag = "artu"), a block (c.tag = "art") or
\* carries another tag (c.tag = "other")
RECURSIVE EncArtBlock(_, _)
EncChild(c, bad) ==
    IF c.tag = "artu" THEN EncArtu(c, bad)
    ELSE IF c.tag = "art" THEN u64(0) \o ART_ \o EncArtBlock(c, bad)
    ELSE u64(0) \o STAu \o ZZ(24)
EncArtBlock(b, bad) ==
    u32(0) \o Lit(bad, "art.one", u32(1)) \o u32(0) \o u32(b.idx) \o u32(Len(b.children))
    \o Cat([i \in 1..Len(b.children) |-> EncChild(b.children[i], bad)])
    \o str_to_data(b.ph)

\* layout read by read_art, the section
EncArt(art, bad) ==
    u64(0) \o Lit(bad, "art.arr", EncArr(1))
    \o Cat([i \in 1..Len(art) |->
              u64(0) \o Lit(bad, "art.tag", ART_) \o EncArtBlock(art[i], bad)])
    \o Lit(bad, "art.articulation", str_to_data(S_articulation))

\* a field of a description, or its usual value when the description
\* leaves it out
Field(v, name, usual) == IF name \in DOMAIN v THEN v[name] ELSE usual

\* layout read by read_vqm, one VQMp
EncVqmp(v, bad) ==
    Lit(bad, "vqmp.ff", FF(8)) \o Lit(bad, "vqmp.tag", VQMp)
    \o u32(0) \o u32(0) \o u32(1) \o Field(v, "prefix", ZZ(10))
    \o Field(v, "pitch1", F224) \o Field(v, "pitch2", F224)
    \o ZZ(4) \o ZZ(4) \o ZZ(4) \o u32(0)
    \o FF(4) \o u32(Len(v.epr)) \o U64s(v.epr)
    \o Field(v, "fs", Fs44100) \o Lit(bad, "vqmp.0100", <<1, 0>>)
    \o u32(v.id) \o u64(v.snd) \o FF(16) \o str_to_data(v.idx)

\* layout read by read_vqm, the section
EncVqm(vqm, bad) ==
    FF(8) \o VQM_ \o u32(0) \o u32(1) \o u32(0) \o u32(1) \o FF(8)
    \o Lit(bad, "vqmu.tag", VQMu) \o u32(0) \o u32(1) \o u32(0)
    \o u32(Len(vqm)) \o u32(Len(vqm))
    \o Cat([i \in 1..Len(vqm) |-> EncVqmp(vqm[i], bad)])
    \o Lit(bad, "vqm.growl", str_to_data(S_GROWL)) \o str_to_data(S_vqm)

\* layout read by read_dbv
EncDbv(bad) == u64(0) \o DBV_ \o u32(0) \o Lit(bad, "dbv.one", u64(1)) \o u32(5)

\* layout read by read_tdb: one TMM
EncTmm(idx, ph, bad) ==
    FF(8) \o Lit(bad, "tmm.tag", TMM_) \o u32(0) \o u64(1) \o u32(idx) \o u32(3)
    \o FF(8) \o EncArr(0) \o str_to_data(S_pitch)
    \o FF(8) \o EncArr(0) \o str_to_data(S_dynamics)
    \o FF(8) \o EncArr(0) \o str_to_data(S_opening)
    \o str_to_data(ph)
EncTdb(bad) ==
    FF(8) \o TDB_ \o u32(0) \o Lit(bad, "tdb.one", u64(1)) \o u32(1)
    \o EncTmm(0, <<97>>, bad)
    \o Lit(bad, "tdb.timbre", str_to_data(S_timbre))

\* layout read by read_phdc: one phoneme, no PHG2 category, one category
\* with one value
PadTo(s, n) == s \o ZZ(n - Len(s))
EncPhdc(bad) ==
    LET phonemes == PadTo(<<97>>, 30) \o <<1>>
        category == PadTo(<<120>>, 32) \o u32(4) \o <<0, 0, 0, 0, 0, 97, 98, 64>>
        phg2_size == 12
    IN  PHDC \o u32(phg2_size + 16 + 31 + 4 + Len(category))
        \o Lit(bad, "phdc.four", u32(4)) \o u32(1) \o phonemes
        \o Lit(bad, "phg2.tag", PHG2) \o u32(phg2_size) \o u32(0)
        \o u32(1) \o category

\* the index of a description d; d.footer: the index ends with the
\* length-prefixed string 'voice'
EncIndex(d) ==
    (IF d.phdc THEN EncPhdc(d.bad) ELSE <<>>)
    \o (IF d.tdb THEN EncTdb(d.bad) ELSE <<>>)
    \o EncDbv(d.bad)
    \o EncSta(d.sta, d.bad)
    \o EncArt(d.art, d.bad)
    \o (IF d.has_vqm THEN EncVqm(d.vqm, d.bad) ELSE <<>>)
    \o (IF Field(d, "footer", FALSE) THEN ddi_footer ELSE <<>>)
-----------------------------------------------------------------------------
(* pack_ddb.main: the new data file is written chunk by chunk from the     *)
(* files of the singer tree, and the index is patched in memory.           *)

ART_DIR == <<47, 118, 111, 105, 99, 101, 47, 97, 114, 116, 105, 99, 117, 108,
             97, 116, 105, 111, 110, 47>>                  \* '/voice/articulation/'
STA_DIR == <<47, 118, 111, 105, 99, 101, 47, 115, 116, 97, 116, 105, 111, 110,
             97, 114, 121, 47, 110, 111, 114, 109, 97, 108, 47>>
                                                           \* '/voice/stationary/normal/'

\* str(n) for n >= 0, as ASCII
RECURSIVE str_of(_)
str_of(n) == IF n < 10 THEN <<48 + n>> ELSE str_of(n \div 10) \o <<48 + (n % 10)>>

\* escape_filename: 'a'..'z' are kept, any other character c becomes %ord(c)%
RECURSIVE escape_filename(_)
escape_filename(filename) ==
    IF filename = <<>> THEN <<>>
    ELSE LET c == Head(filename)
         IN  (IF c >= 97 /\ c <= 122 THEN <<c>> ELSE <<37>> \o str_of(c) \o <<37>>)
             \o escape_filename(Tail(filename))

\* cvvc.split(' ')
RECURSIVE split_sp(_, _)
split_sp(s, cur) ==
    IF s = <<>> THEN <<cur>>
    ELSE IF Head(s) = 32 THEN <<cur>> \o split_sp(Tail(s), <<>>)
    ELSE split_sp(Tail(s), Append(cur, Head(s)))

\* the articulation file of a key; the previous path when the key has
\* neither two nor three phonemes
art_file_of(cvvc, prev) ==
    LET phonemes == split_sp(cvvc, <<>>)
    IN  IF Len(phonemes) = 3
        THEN ART_DIR \o escape_filename(phonemes[1]) \o <<47>>
             \o escape_filename(phonemes[2]) \o <<47>> \o escape_filename(phonemes[3])
        ELSE IF Len(phonemes) = 2
        THEN ART_DIR \o escape_filename(phonemes[1]) \o <<47>>
             \o escape_filename(phonemes[2])
        ELSE prev

sta_file_of(phoneme, i) ==
    STA_DIR \o escape_filename(phoneme) \o <<47>> \o escape_filename(str_of(i))

\* data[a:b] for 0 <= a
Slice(data, a, b) == SubSeq(data, a + 1, Min(b, Len(data)))

\* write_at that inserts the bytes instead of overwriting
write_at_insert(buf, pos, bs) ==
    SubSeq(buf, 1, pos) \o bs \o SubSeq(buf, pos + 1, Len(buf))

\* BytesIO: seek(pos); write(bs)
write_at(buf, pos, bs) ==
    LET padded == IF pos > Len(buf) THEN buf \o ZZ(pos - Len(buf)) ELSE buf
    IN  SubSeq(padded, 1, pos) \o bs \o SubSeq(padded, pos + Len(bs) + 1, Len(padded))

\* the state that the loops of main carry: the new data file, the index
\* in memory, the history of what was written where, and whether an
\* exception has ended main
PackSt(ddb, ddi, lg) == [ok |-> TRUE, ddb |-> ddb, ddi |-> ddi, log |-> lg]
Raise(st) == [st EXCEPT !.ok = FALSE]

\* for epr_info in item["epr"]: copy the FRM2 chunk, patch its site
RECURSIVE pack_eprs(_, _, _, _)
pack_eprs(st, chunk_bytes, eprs, k) ==
    IF k > Len(eprs) THEN st
    ELSE LET parts == split2(eprs[k], "=")
             ddb_epr_offset == Len(st.ddb)
             ddi_epr_pos == int16(parts[1])
             epr_offset == int16(parts[2])
             frm_len == from_bytes(Rd(chunk_bytes, epr_offset + 4, 4))
             epr_cutoff == epr_offset + frm_len
         IN  IF epr_offset < 0 \/ Rd(chunk_bytes, epr_offset, 4) # FRM2
             THEN Raise(st)
             ELSE pack_eprs(
                    PackSt(st.ddb \o Slice(chunk_bytes, epr_offset, epr_cutoff),
                           write_at(st.ddi, ddi_epr_pos, u64(ddb_epr_offset)),
                           Append(st.log, [kind |-> "epr", site |-> ddi_epr_pos,
                                           at |-> ddb_epr_offset,
                                           value |-> ddb_epr_offset])),
                    chunk_bytes, eprs, k + 1)

\* the body of `for i in range(0, len(art_items))', lines 99-160
pack_art_item(st, art_bytes, art_item) ==
    LET e == pack_eprs(st, art_bytes, art_item.epr, 1)
    IN  IF ~e.ok THEN e
        \* art_item["snd_cutoff"]: KeyError unless the item has that key
        ELSE IF "snd_cutoff" \notin DOMAIN art_item THEN Raise(e)
        ELSE LET ddi_snd_pos == ref_site(art_item.snd)
                 snd_off == ref_offset(art_item.snd)
                 snd_offset2 == ref_offset(art_item["snd_cutoff"])
                 offset2_delta == snd_offset2 - snd_off
                 snd_len == from_bytes(Rd(art_bytes, snd_off + 4, 4))
                 snd_cutoff == snd_off + snd_len
                 ddb_snd_offset == Len(e.ddb) + 18
                 snd_bytes == Slice(art_bytes, snd_off, snd_cutoff)
                 written == e.ddb \o snd_bytes
             IN  IF snd_off < 0 \/ Rd(art_bytes, snd_off, 4) # SND_
                 THEN Raise(e)
                 \* to_bytes of a negative number: OverflowError
                 ELSE IF ddb_snd_offset + offset2_delta < 0
                 THEN Raise([e EXCEPT !.ddb = written,
                                      !.ddi = write_at(e.ddi, ddi_snd_pos,
                                                       u64(ddb_snd_offset))])
                 ELSE PackSt(written,
                             write_at(e.ddi, ddi_snd_pos,
                                      u64(ddb_snd_offset)
                                      \o u64(ddb_snd_offset + offset2_delta)),
                             e.log
                             \o <<[kind |-> "snd", site |-> ddi_snd_pos,
                                   at |-> Len(e.ddb), value |-> ddb_snd_offset],
                                  [kind |-> "snd_start", site |-> ddi_snd_pos + 8,
                                   at |-> Len(e.ddb),
                                   value |-> ddb_snd_offset + offset2_delta]>>)

RECURSIVE pack_art_items(_, _, _, _)
pack_art_items(st, art_bytes, art_items, i) ==
    IF i > Len(art_items) \/ ~st.ok THEN st
    ELSE pack_art_items(pack_art_item(st, art_bytes, art_items[i]),
                        art_bytes, art_items, i + 1)

\* pack_sta_item with the SND chunk copied before the FRM2 chunks
pack_sta_item_snd_first(st, files, phoneme, i, sta_item) ==
    LET sta_bytes == DictGet(files, sta_file_of(phoneme, i))
        ddi_snd_pos == ref_site(sta_item.snd)
        ddb_snd_offset == Len(st.ddb) + ref_offset(sta_item.snd) - 61
        snd_len == from_bytes(Rd(sta_bytes, 65, 4))
    IN  IF ~DictHas(files, sta_file_of(phoneme, i)) THEN Raise(st)
        ELSE IF Rd(sta_bytes, 61, 4) # SND_ \/ ddb_snd_offset < 0 THEN Raise(st)
        ELSE pack_eprs(
               PackSt(st.ddb \o Slice(sta_bytes, 61, 61 + snd_len),
                      write_at(st.ddi, ddi_snd_pos, u64(ddb_snd_offset)),
                      Append(st.log, [kind |-> "snd", site |-> ddi_snd_pos,
                                      at |-> Len(st.ddb), value |-> ddb_snd_offset])),
               sta_bytes, sta_item.epr, 1)

\* pack_sta_item with the position of the header written at the SND site
pack_sta_item_at_header(st, files, phoneme, i, sta_item) ==
    LET sta_bytes == DictGet(files, sta_file_of(phoneme, i))
        e == pack_eprs(st, sta_bytes, sta_item.epr, 1)
        snd_len == from_bytes(Rd(sta_bytes, 65, 4))
    IN  IF ~DictHas(files, sta_file_of(phoneme, i)) THEN Raise(st)
        ELSE IF ~e.ok THEN e
        ELSE IF Rd(sta_bytes, 61, 4) # SND_ THEN Raise(e)
        ELSE PackSt(e.ddb \o Slice(sta_bytes, 61, 61 + snd_len),
                    write_at(e.ddi, ref_site(sta_item.snd), u64(Len(e.ddb))),
                    Append(e.log, [kind |-> "snd", site |-> ref_site(sta_item.snd),
                                   at |-> Len(e.ddb), value |-> Len(e.ddb)]))

\* the body of `for i in range(0, len(sta_items))', lines 163-222
pack_sta_item(st, files, phoneme, i, sta_item) ==
    LET sta_file == sta_file_of(phoneme, i)
        sta_bytes == DictGet(files, sta_file)
        e == pack_eprs(st, sta_bytes, sta_item.epr, 1)
        ddi_snd_pos == ref_site(sta_item.snd)
        snd_off == ref_offset(sta_item.snd)
        real == 61
        snd_len == from_bytes(Rd(sta_bytes, real + 4, 4))
        snd_cutoff == real + snd_len
        delta_snd_offset == snd_off - real
        ddb_snd_offset == Len(e.ddb) + delta_snd_offset
        written == e.ddb \o Slice(sta_bytes, real, snd_cutoff)
    IN  IF ~DictHas(files, sta_file) THEN Raise(st)
        ELSE IF ~e.ok THEN e
        ELSE IF Rd(sta_bytes, real, 4) # SND_ THEN Raise(e)
        \* to_bytes of a negative number: OverflowError
        ELSE IF ddb_snd_offset < 0 THEN Raise([e EXCEPT !.ddb = written])
        ELSE PackSt(written,
                    write_at(e.ddi, ddi_snd_pos, u64(ddb_snd_offset)),
                    Append(e.log, [kind |-> "snd", site |-> ddi_snd_pos,
                                   at |-> Len(e.ddb), value |-> ddb_snd_offset]))

RECURSIVE pack_sta_items(_, _, _, _, _)
pack_sta_items(st, files, phoneme, sta_items, i) ==
    IF i >= Len(sta_items) \/ ~st.ok THEN st
    ELSE pack_sta_items(pack_sta_item(st, files, phoneme, i, sta_items[i + 1]),
                        files, phoneme, sta_items, i + 1)

\* ---- the steps of main

\* lines 55-72: the tree's index is loaded, old outputs are removed
PackOpen ==
    /\ pc = "main"
    /\ ddi_data' = ddi_bytes
    /\ ddi_file' = NoFile
    /\ ddb_f' = NoFile
    /\ pc' = "phdc"
    /\ UNCHANGED <<tree, art_file, todo, log, modelVars, searchVars, toolVars, input>>

\* lines 74-83: after DDIModel.read(), the data file is created; the loops
\* will visit the articulation keys and then the stationary phonemes
PackCreate ==
    /\ pc = "parsed"
    /\ ddb_f' = <<>>
    /\ todo' = [i \in 1..Len(DictGet(ddi_data_dict, "art")) |->
                   [kind |-> "art", key |-> DictGet(ddi_data_dict, "art")[i].k,
                    items |-> DictGet(ddi_data_dict, "art")[i].v]]
               \o [i \in 1..Len(DictGet(ddi_data_dict, "sta")) |->
                   [kind |-> "sta", key |-> DictGet(ddi_data_dict, "sta")[i].k,
                    items |-> DictGet(ddi_data_dict, "sta")[i].v]]
    /\ pc' = "pack"
    /\ UNCHANGED <<tree, ddi_data, ddi_file, art_file, log, modelVars, searchVars, toolVars, input>>

Carry(st) ==
    /\ ddb_f' = st.ddb
    /\ ddi_data' = st.ddi
    /\ log' = st.log
    /\ IF st.ok THEN pc' = "pack" /\ todo' = Tail(todo)
       ELSE pc' = "pack_failed" /\ UNCHANGED todo

\* lines 84-160: one articulation key
PackArt ==
    /\ pc = "pack" /\ todo # <<>> /\ Head(todo).kind = "art"
    /\ LET file == art_file_of(Head(todo).key, art_file)
           st == PackSt(ddb_f, ddi_data, log)
       IN  /\ art_file' = file
           /\ IF DictHas(tree, file)
              THEN Carry(pack_art_items(st, DictGet(tree, file), Head(todo).items, 1))
              ELSE Carry(Raise(st))
    /\ UNCHANGED <<tree, ddi_file, modelVars, searchVars, toolVars, input>>

\* lines 162-222: one stationary phoneme
PackSta ==
    /\ pc = "pack" /\ todo # <<>> /\ Head(todo).kind = "sta"
    /\ Carry(pack_sta_items(PackSt(ddb_f, ddi_data, log), tree,
                            Head(todo).key, Head(todo).items, 0))
    /\ UNCHANGED <<tree, ddi_file, art_file, modelVars, searchVars, toolVars, input>>

\* lines 224-229: the patched index is written
PackWrite ==
    /\ pc = "pack" /\ todo = <<>>
    /\ ddi_file' = ddi_data
    /\ pc' = "packed"
    /\ UNCHANGED <<tree, ddi_data, ddb_f, art_file, todo, log, modelVars, searchVars, toolVars, input>>

NextPack == PackOpen \/ NextRead \/ PackCreate \/ PackArt \/ PackSta \/ PackWrite
-----------------------------------------------------------------------------
(* The voice-quality mix-in (mixins_ddb.py).  main reads the donor index,  *)
(* copies the recipient data file, and hands over to mixins_vqm or         *)
(* mixins_sta2vqm, which read the recipient index, append the donor        *)
(* chunks, build a VQM image and splice it into the recipient index.       *)
(* The four input files exist.                                             *)

\* s[:i] and s[i:] of Python: a negative index counts from the end
PyIdx(n, i) == IF i < 0 THEN Max(n + i, 0) ELSE Min(i, n)

\* byte_replace with the bytes put at the end of the source
byte_replace_append(src_bytes, offset, override_len, replace_bytes) ==
    src_bytes \o replace_bytes

byte_replace(src_bytes, offset, override_len, replace_bytes) ==
    SubSeq(src_bytes, 1, PyIdx(Len(src_bytes), offset))
    \o replace_bytes
    \o SubSeq(src_bytes, PyIdx(Len(src_bytes), offset + override_len) + 1,
              Len(src_bytes))

\* s.split(c)
RECURSIVE split(_, _)
split(s, c) ==
    IF Count(s, c) = 0 THEN <<s>>
    ELSE <<SubSeq(s, 1, IndexOf(s, c) - 1)>>
         \o split(SubSeq(s, IndexOf(s, c) + 1, Len(s)), c)

\* str_to_bytes: bytes([int(piece, 16) for piece in data.split(' ')])
hex_pieces(pieces) == [i \in 1..Len(pieces) |-> int16(pieces[i])]
str_to_bytes(data) == hex_pieces(split(data, " "))

\* vqmp_stream with pitch1 written from the entry
vqmp_stream_pitch1(vqm_meta) ==
    FF(8) \o VQMp \o u32(0) \o u32(0) \o u32(1)
    \o str_to_bytes(vqm_meta.unknown1)
    \o vqm_meta.pitch1 \o vqm_meta.pitch2 \o vqm_meta.unknown2
    \o vqm_meta.dynamics \o vqm_meta.unknown3 \o u32(0)
    \o FF(4) \o u32(Len(vqm_meta.epr)) \o U64s(vqm_meta.epr)
    \o Fs44100 \o <<1, 0>>
    \o u32(vqm_meta.snd_id) \o u64(vqm_meta.snd) \o FF(16)
    \o str_to_data(vqm_meta.idx)

\* the VQMp that _create_vqm_stream writes for one entry: pitch1 is written
\* as 224.0 and fs as 44100 whatever the entry holds
vqmp_stream(vqm_meta) ==
    FF(8) \o VQMp \o u32(0) \o u32(0) \o u32(1)
    \o str_to_bytes(vqm_meta.unknown1)
    \o F224 \o vqm_meta.pitch2 \o vqm_meta.unknown2
    \o vqm_meta.dynamics \o vqm_meta.unknown3 \o u32(0)
    \o FF(4) \o u32(Len(vqm_meta.epr)) \o U64s(vqm_meta.epr)
    \o Fs44100 \o <<1, 0>>
    \o u32(vqm_meta.snd_id) \o u64(vqm_meta.snd) \o FF(16)
    \o str_to_data(vqm_meta.idx)

_create_vqm_stream(vqm_meta_list) ==
    FF(8) \o VQM_ \o u32(0) \o u32(1) \o u32(0) \o u32(1) \o FF(8)
    \o VQMu \o u32(0) \o u32(1) \o u32(0)
    \o u32(Len(vqm_meta_list)) \o u32(Len(vqm_meta_list))
    \o Cat([i \in 1..Len(vqm_meta_list) |-> vqmp_stream(vqm_meta_list[i])])
    \o str_to_data(S_GROWL) \o str_to_data(S_vqm)

\* main, lines 412-416: the recipient data file is copied in reads of 10240
CopyBlock == 10240
RECURSIVE copy_stream(_, _, _)
copy_stream(src, pos, dst) ==
    IF Rd(src, pos, CopyBlock) = <<>> THEN dst
    ELSE copy_stream(src, pos + CopyBlock, dst \o Rd(src, pos, CopyBlock))

\* seek(offset); read(4) is compared with the magic; the u32 after it is
\* the length; seek(offset); read(length)
chunk_at(ddb, offset, magic) ==
    [ok |-> Rd(ddb, offset, 4) = magic,
     bytes |-> Rd(ddb, offset, from_bytes(Rd(ddb, offset + 4, 4)))]

\* for epr_info in ...: the FRM2 chunk of each EpR is appended to the output
\* and the position it was appended at is recorded, up to the first EpR
\* whose offset does not hold the magic; cs are the chunks of the EpR
FirstBad(cs) ==
    LET bad == {k \in 1..Len(cs) : ~cs[k].ok}
    IN  IF bad = {} THEN Len(cs) + 1 ELSE CHOOSE k \in bad : \A j \in bad : k <= j
Copied(cs, n) == Cat([k \in 1..n |-> cs[k].bytes])
\* mix_eprs_of with each position taken after its chunk was written
mix_eprs_of_after(st, cs, n) ==
    [ok |-> n = Len(cs),
     out |-> st.out \o Copied(cs, n),
     epr |-> [k \in 1..n |-> Len(st.out) + Len(Copied(cs, k))]]
mix_eprs_of(st, cs, n) ==
    [ok |-> n = Len(cs),
     out |-> st.out \o Copied(cs, n),
     epr |-> [k \in 1..n |-> Len(st.out) + Len(Copied(cs, k - 1))]]
mix_eprs(st, mixins_ddb, eprs) ==
    mix_eprs_of(st,
                [k \in 1..Len(eprs) |-> chunk_at(mixins_ddb, ref_offset(eprs[k]), FRM2)],
                FirstBad([k \in 1..Len(eprs) |->
                            chunk_at(mixins_ddb, ref_offset(eprs[k]), FRM2)]) - 1)

MixSt(out) == [ok |-> TRUE, out |-> out, epr |-> <<>>]
NoMeta == <<>>
MixFail(out) == [ok |-> FALSE, out |-> out, meta |-> NoMeta]

\* mixins_vqm, the body of the loop over the donor's VQMp (lines 164-225);
\* e is the state after the EpR loop, c the SND chunk
mix_vqmp_snd(e, vqm_idx, vqm_info, c) ==
    IF ~e.ok \/ ~c.ok \/ Rd(c.bytes, 0, 4) # SND_ THEN MixFail(e.out)
    ELSE [ok |-> TRUE, out |-> e.out \o c.bytes,
          meta |-> [idx |-> str_of(vqm_idx), epr |-> e.epr,
                    snd_id |-> ref_id(vqm_info.snd), snd |-> Len(e.out),
                    unknown1 |-> vqm_info.unknown1,
                    pitch1 |-> vqm_info.pitch1, pitch2 |-> vqm_info.pitch2,
                    unknown2 |-> vqm_info.unknown2,
                    unknown3 |-> vqm_info.unknown3,
                    dynamics |-> vqm_info.dynamics]]
mix_vqmp(out, mixins_ddb, vqm_idx, vqm_info) ==
    mix_vqmp_snd(mix_eprs(MixSt(out), mixins_ddb, vqm_info.epr),
                 vqm_idx, vqm_info,
                 chunk_at(mixins_ddb, ref_offset(vqm_info.snd), SND_))

\* the number of EpR a STAp must have, and that are taken from it
EprTake == 100
\* '2c fb b7 5b 72 93 e2 3f 01 00'
Sta2VqmPrefix ==
    <<"2", "c", " ", "f", "b", " ", "b", "7", " ", "5", "b", " ", "7", "2", " ",
      "9", "3", " ", "e", "2", " ", "3", "f", " ", "0", "1", " ", "0", "0">>

\* mixins_sta2vqm, the body of the loop over the STAp (lines 281-349) for a
\* STAp that has EprTake EpR or more; e is the state after the EpR loop,
\* real_offset the result of the backward search
mix_stap_snd(e, mixins_ddb, vqm_idx, sta_item, real_offset) ==
    IF ~e.ok \/ ~SeekOk(real_offset)
       \/ Rd(mixins_ddb, real_offset, 4) # SND_
    THEN MixFail(e.out)
    ELSE [ok |-> TRUE,
          out |-> e.out \o chunk_at(mixins_ddb, real_offset, SND_).bytes,
          meta |-> [idx |-> str_of(vqm_idx), epr |-> e.epr,
                    snd_id |-> ref_id(sta_item.snd), snd |-> Len(e.out),
                    unknown1 |-> Sta2VqmPrefix,
                    pitch1 |-> sta_item.pitch1, pitch2 |-> sta_item.pitch2,
                    unknown2 |-> sta_item.unknown2,
                    unknown3 |-> sta_item.unknown3,
                    dynamics |-> sta_item.dynamics]]
\* mix_stap with every EpR of the unit taken
mix_stap_all(out, mixins_ddb, vqm_idx, sta_item) ==
    mix_stap_snd(mix_eprs(MixSt(out), mixins_ddb, sta_item.epr),
                 mixins_ddb, vqm_idx, sta_item,
                 stream_reverse_search(mixins_ddb, SND_,
                                       ref_offset(sta_item.snd), -1))
mix_stap(out, mixins_ddb, vqm_idx, sta_item) ==
    mix_stap_snd(mix_eprs(MixSt(out), mixins_ddb,
                          SubSeq(sta_item.epr, 1, EprTake)),
                 mixins_ddb, vqm_idx, sta_item,
                 stream_reverse_search(mixins_ddb, SND_,
                                       ref_offset(sta_item.snd), -1))

\* lines 238-244 and 362-368: the DBV count at dbv_len_post is read, raised by one and
\* written back
bump_dbv_len_not(buf, dbv_len_post) == buf
bump_dbv_len(buf, dbv_len_post) ==
    write_at(buf, dbv_len_post, u32(from_bytes(Rd(buf, dbv_len_post, 4)) + 1))

\* lines 231-250 and 355-374: where the image goes, and the new index
vqm_span(src_ddi_bytes, map, has_vqm) ==
    IF has_vqm THEN DictGet(map, "vqm")
    ELSE <<find(src_ddi_bytes, ddi_footer), find(src_ddi_bytes, ddi_footer)>>
new_ddi(src_ddi_bytes, map, has_vqm, span, ddi_vqm_bytes) ==
    byte_replace(IF has_vqm THEN src_ddi_bytes
                 ELSE bump_dbv_len(src_ddi_bytes, DictGet(map, "dbv")[1] + 24),
                 span[1], span[2] - span[1], ddi_vqm_bytes)

\* ---- the actions

\* the answers to `Continue? (Y/n)', after strip().lower()
Choices == {"y", "", "n"}

\* the STAu the loop of lines 271-274 stops at: the first of the phoneme
FirstStau(staus, phoneme) ==
    LET hits == {i \in 1..Len(staus) : staus[i].v.phoneme = phoneme}
    IN  IF hits = {} THEN 0 ELSE CHOOSE i \in hits : \A j \in hits : i <= j

\* main, lines 395-421, and the head of mixins_vqm / mixins_sta2vqm up to
\* the construction of the recipient's DDIModel
MixCreate ==
    /\ pc = "parsed" /\ mix # <<>> /\ mix.stage = "mixins"
    /\ ddb_f' = copy_stream(mix.src_ddb, 0, <<>>)
    /\ IF mix.item = "vqm" /\ ~DictHas(ddi_data_dict, "vqm")
       THEN /\ pc' = "mix_failed"
            /\ UNCHANGED <<mix, modelVars>>
       ELSE /\ pc' = "phdc"
            /\ mix' = [mix EXCEPT !.stage = "src",
                                  !.mixins_vqm_data = vqm_data,
                                  !.mixins_sta_data = sta_data]
            /\ ddi_bytes' = mix.src_ddi
            /\ ddi_pos' = 0
            /\ phdc_data' = <<>> /\ tdb_data' = <<>> /\ sta_data' = <<>>
            /\ art_data' = <<>> /\ vqm_data' = Some(<<>>) /\ offset_map' = <<>>
            /\ ddi_data_dict' = <<>>
            /\ UNCHANGED recovered
    /\ UNCHANGED <<tree, ddi_data, ddi_file, art_file, todo, log, searchVars, ext, input>>

\* lines 156-161 and 262-267: the prompt; lines 270-277: the STAu is looked
\* up.  A return without a value makes main write None, which raises after
\* the index file was opened for writing.
MixConfirm ==
    /\ pc = "parsed" /\ mix # <<>> /\ mix.stage = "src"
    /\ IF DictHas(ddi_data_dict, "vqm") /\ (mix.choice # "y" \/ mix.choice # "")
       THEN /\ pc' = "mix_failed"
            /\ ddi_file' = <<>>
            /\ mix' = [mix EXCEPT !.stage = "returned"]
       ELSE IF mix.item = "vqm"
       THEN /\ pc' = "mix"
            /\ mix' = [mix EXCEPT !.stage = "units",
                                  !.units = mix.mixins_vqm_data.dict]
            /\ UNCHANGED ddi_file
       ELSE IF FirstStau(mix.mixins_sta_data, mix.phoneme) = 0
       THEN /\ pc' = "mix_failed"
            /\ UNCHANGED <<mix, ddi_file>>
       ELSE /\ pc' = "mix"
            /\ mix' = [mix EXCEPT
                         !.stage = "units",
                         !.units = mix.mixins_sta_data[
                                     FirstStau(mix.mixins_sta_data, mix.phoneme)].v.stap]
            /\ UNCHANGED ddi_file
    /\ UNCHANGED <<tree, ddi_data, ddb_f, art_file, todo, log, modelVars,
                   searchVars, ext, input>>

\* r is what the body of the loop made of the first unit left
MixCarry(r) ==
    /\ ddb_f' = r.out
    /\ IF r.ok
       THEN /\ pc' = "mix"
            /\ mix' = [mix EXCEPT !.units = Tail(@),
                                  !.vqm_idx = @ + 1,
                                  !.vqm_meta_list = Append(@, r.meta)]
       ELSE /\ pc' = "mix_failed"
            /\ UNCHANGED mix

\* one turn of the loop of mixins_vqm
MixVqmp ==
    /\ pc = "mix" /\ mix.item = "vqm" /\ mix.units # <<>>
    /\ MixCarry(mix_vqmp(ddb_f, mix.mixins_ddb, Head(mix.units).k, Head(mix.units).v))
    /\ UNCHANGED <<tree, ddi_data, ddi_file, art_file, todo, log, modelVars,
                   searchVars, ext, input>>

\* one turn of the loop of mixins_sta2vqm; a STAp with fewer than EprTake
\* EpR is passed over
MixStap ==
    /\ pc = "mix" /\ mix.item = "sta2vqm" /\ mix.units # <<>>
    /\ IF Len(Head(mix.units).v.epr) < EprTake
       THEN /\ mix' = [mix EXCEPT !.units = Tail(@)]
            /\ UNCHANGED <<pc, ddb_f>>
       ELSE MixCarry(mix_stap(ddb_f, mix.mixins_ddb, mix.vqm_idx, Head(mix.units).v))
    /\ UNCHANGED <<tree, ddi_data, ddi_file, art_file, todo, log, modelVars,
                   searchVars, ext, input>>

\* lines 227-250 and 351-374: the image is built and spliced in; main,
\* lines 423-426: the new index is written
MixWrite ==
    /\ pc = "mix" /\ mix.units = <<>>
    /\ LET has_vqm == DictHas(ddi_data_dict, "vqm")
           image == _create_vqm_stream(mix.vqm_meta_list)
           span == vqm_span(ddi_bytes, offset_map, has_vqm)
       IN  /\ ddi_file' = new_ddi(ddi_bytes, offset_map, has_vqm, span, image)
           /\ mix' = [mix EXCEPT !.stage = "done",
                                 !.ddi_vqm_bytes = image,
                                 !.ddi_vqm_pos = span[1]]
    /\ pc' = "mixed"
    /\ UNCHANGED <<tree, ddi_data, ddb_f, art_file, todo, log, modelVars,
                   searchVars, ext, input>>

NextMixin == NextRead \/ MixCreate \/ MixConfirm \/ MixVqmp \/ MixStap \/ MixWrite
-----------------------------------------------------------------------------
(* extract_wav.py: the walk of the catalogue, the dumps, the scan *)

S_growl == <<103, 114, 111, 119, 108>>                 \* 'growl'
S_Sil   == <<83, 105, 108>>                            \* 'Sil'
S_sil   == <<115, 105, 108>>                           \* 'sil'

\* xsampa.replace("Sil", "sil")
RECURSIVE replace_Sil(_)
replace_Sil(s) ==
    IF Len(s) < 3 THEN s
    ELSE IF SubSeq(s, 1, 3) = S_Sil THEN S_sil \o replace_Sil(SubSeq(s, 4, Len(s)))
    ELSE <<s[1]>> \o replace_Sil(Tail(s))

\* the chain of replace() of lines 27-34, one character at a time: no
\* replacement character is replaced by a later link of the chain
escape_char(b) ==
    CASE b = 92 -> 45          \* '\' -> '-'
      [] b = 47 -> 126         \* '/' -> '~'
      [] b = 63 -> 33          \* '?' -> '!'
      [] b = 58 -> 59          \* ':' -> ';'
      [] b = 60 -> 40          \* '<' -> '('
      [] b = 62 -> 41          \* '>' -> ')'
      [] OTHER  -> b
escape_xsampa(xsampa) ==
    [i \in 1..Len(replace_Sil(xsampa)) |-> escape_char(replace_Sil(xsampa)[i])]

S_unknown      == <<117, 110, 107, 110, 111, 119, 110>>                  \* 'unknown'
S_wav          == <<119, 97, 118>>                                       \* 'wav'
S_lab          == <<108, 97, 98>>                                        \* 'lab'
S_sta          == <<115, 116, 97>>                                       \* 'sta'
S_art          == <<97, 114, 116>>                                       \* 'art'
S_tri          == <<116, 114, 105>>                                      \* 'tri'
S_vqm_growl    == <<118, 113, 109, 47, 103, 114, 111, 119, 108>>          \* 'vqm/growl'
S_triphoneme   == <<116, 114, 105, 112, 104, 111, 110, 101, 109, 101>>    \* 'triphoneme'
S_pit          == <<112, 105, 116>>                                      \* 'pit'

\* the text of a formatted number as ASCII
Ord(c) ==
    CASE c = " " -> 32
      [] c = "-" -> 45
      [] OTHER   -> IF DigitVal(c) < 10 THEN 48 + DigitVal(c) ELSE 87 + DigitVal(c)
Ascii(s) == [i \in 1..Len(s) |-> Ord(s[i])]

\* sep.join(items)
RECURSIVE join(_, _)
join(sep, items) ==
    IF items = <<>> THEN <<>>
    ELSE IF Len(items) = 1 THEN items[1]
    ELSE items[1] \o sep \o join(sep, Tail(items))

\* ---- the pitch, a single-precision float kept as the four bytes read
\* from the index: sign, exponent, fraction; its value is
\* mant * 2 ** -shift

RECURSIVE TwoTo(_)
TwoTo(n) == IF n = 0 THEN 1 ELSE 2 * TwoTo(n - 1)
f32_sign(bs) == bs[4] \div 128
f32_exp(bs)  == (bs[4] % 128) * 2 + (bs[3] \div 128)
f32_frac(bs) == (bs[3] % 128) * 65536 + bs[2] * 256 + bs[1]
f32_mant(bs) == IF f32_exp(bs) = 0 THEN f32_frac(bs) ELSE f32_frac(bs) + 8388608
f32_shift(bs) == 150 - Max(f32_exp(bs), 1)
\* pitch >= 0: of the negative floats only -0.0
f32_ge_0(bs) == f32_sign(bs) = 0 \/ (f32_exp(bs) = 0 /\ f32_frac(bs) = 0)

\* n / 2 ** s rounded to the nearest integer, a tie to the even one
round_shift(n, s) ==
    IF s >= 32 THEN 0
    ELSE IF s = 31 THEN (IF n > TwoTo(30) THEN 1 ELSE 0)
    ELSE IF 2 * (n % TwoTo(s)) > TwoTo(s)
            \/ (2 * (n % TwoTo(s)) = TwoTo(s) /\ (n \div TwoTo(s)) % 2 = 1)
    THEN (n \div TwoTo(s)) + 1
    ELSE n \div TwoTo(s)

\* f"{pitch:.2f}" for a float below 2 ** 24 in size: the sign, the
\* hundredths rounded from the exact value, a point before the last two
fixed_2f(bs) ==
    (IF f32_sign(bs) = 1 THEN <<45>> ELSE <<>>)
    \o str_of(round_shift(f32_mant(bs) * 100, f32_shift(bs)) \div 100)
    \o <<46>>
    \o <<48 + ((round_shift(f32_mant(bs) * 100, f32_shift(bs)) % 100) \div 10),
         48 + (round_shift(f32_mant(bs) * 100, f32_shift(bs)) % 10)>>

\* lines 101-104
pit_str(pitch) ==
    IF f32_ge_0(pitch) THEN S_pit \o <<43>> \o fixed_2f(pitch)
    ELSE S_pit \o fixed_2f(pitch)

\* the prefix or the root directory of a name, by the style and the
\* number of phonemes (lines 114-122, 130-139)
name_root(phonemes, name_style) ==
    IF Len(phonemes) = 1
    THEN IF phonemes[1] = S_growl
         THEN (IF name_style = "flat" THEN S_growl ELSE S_vqm_growl)
         ELSE (IF name_style = "flat" THEN S_sta ELSE S_stationary)
    ELSE IF Len(phonemes) = 2
    THEN (IF name_style = "flat" THEN S_art ELSE S_articulation)
    ELSE IF Len(phonemes) = 3
    THEN (IF name_style = "flat" THEN S_tri ELSE S_triphoneme)
    ELSE <<>>

\* f'{offset:0>8x}'
offset_hex(offset) == Ascii(fmt_fill(offset, 8))
escaped_phonemes(phonemes) == [i \in 1..Len(phonemes) |-> escape_xsampa(phonemes[i])]
\* item + "#" + bytes_to_str(item.encode('utf-8'))
phonemes_path(escaped) ==
    join(<<47>>, [i \in 1..Len(escaped) |->
                    escaped[i] \o <<35>> \o Ascii(bytes_to_str(escaped[i]))])

\* create_file_name, the text of the name: '_' is 95, '[' 91, ']' 93,
\* '/' 47, '.' 46, '-' 45.  The pitch of a name without phonemes is not
\* part of the name
flat_name(phonemes, offset, pitch, file_type) ==
    IF phonemes = <<>>
    THEN S_unknown \o <<95>> \o offset_hex(offset) \o <<46>> \o file_type
    ELSE (IF file_type = S_lab THEN S_lab ELSE S_wav) \o <<47>>
         \o name_root(phonemes, "flat") \o <<95, 91>>
         \o join(<<45>>, escaped_phonemes(phonemes)) \o <<93, 95>>
         \o pit_str(pitch) \o <<95>> \o offset_hex(offset) \o <<46>> \o file_type
devkit_name(phonemes, offset, pitch, file_type) ==
    IF phonemes = <<>>
    THEN S_unknown \o <<47>> \o offset_hex(offset) \o <<46>> \o file_type
    ELSE name_root(phonemes, "devkit") \o <<47>>
         \o phonemes_path(escaped_phonemes(phonemes)) \o <<47>>
         \o pit_str(pitch) \o <<95>> \o offset_hex(offset) \o <<46>> \o file_type
create_file_name(phonemes, name_style, offset, pitch, file_type) ==
    IF name_style = "flat" THEN flat_name(phonemes, offset, pitch, file_type)
    ELSE IF name_style = "devkit" THEN devkit_name(phonemes, offset, pitch, file_type)
    ELSE <<>>

\* ---- lines 318-334: the list of the articulation units

\* for artp_item in artu_item["artp"]: art_list.append((phonemes, artp_item))
artp_entries(phonemes, artps) ==
    [i \in 1..Len(artps) |-> [phonemes |-> phonemes, item |-> artps[i].v]]

\* for artu2_item in artu_item["artu"]: its ARTp, under three phonemes
artu2_entries(art_phoneme, artu_phoneme, artu2s) ==
    Cat([k \in 1..Len(artu2s) |->
           IF "artp" \in DOMAIN artu2s[k].v
           THEN artp_entries(<<art_phoneme, artu_phoneme, artu2s[k].v.phoneme>>,
                             artu2s[k].v.artp)
           ELSE <<>>])

\* one artu_item of an art_item: its ARTp under two phonemes, and the ARTp
\* of the units under its own "artu" key
artu_entries(art_phoneme, artu_item) ==
    (IF "artp" \in DOMAIN artu_item
     THEN artp_entries(<<art_phoneme, artu_item.phoneme>>, artu_item.artp)
     ELSE <<>>)
    \o (IF "artu" \in DOMAIN artu_item
        THEN artu2_entries(art_phoneme, artu_item.phoneme, artu_item.artu)
        ELSE <<>>)

\* for art_item in ddi_model.art_data: the key "artu" is there exactly
\* when the block had an ARTu child (ddi_utils.py:591-594)
art_item_entries(art_item) ==
    IF art_item.artu # <<>>
    THEN Cat([j \in 1..Len(art_item.artu) |->
                artu_entries(art_item.phoneme, art_item.artu[j].v)])
    ELSE <<>>

make_art_list(arts) ==
    Cat([i \in 1..Len(arts) |-> art_item_entries(arts[i].v)])

\* for sta_info in sta_data: for sta_item in sta_info["stap"]
make_sta_list(staus) ==
    Cat([i \in 1..Len(staus) |->
           [j \in 1..Len(staus[i].v.stap) |->
              [phonemes |-> <<staus[i].v.phoneme>>, idx |-> staus[i].v.stap[j].k,
               item |-> staus[i].v.stap[j].v]]])

\* for vqm_idx, vqm_info in vqm_data
make_vqm_list(vqmps) ==
    [j \in 1..Len(vqmps) |->
       [phonemes |-> <<S_growl>>, idx |-> vqmps[j].k, item |-> vqmps[j].v]]

\* ---- the dump of one chunk (lines 356-369, 433-448, 473-488, 525-547)

\* ddb_f.read(n) at position q of a file opened with open(): a length
\* below -1 raises ValueError, -1 reads to the end
read_ok(n) == n >= -1
file_read(ddb, q, n) == IF n = -1 THEN Rd(ddb, q, Len(ddb)) ELSE Rd(ddb, q, n)

\* wave.open / setparams / writeframes with a sample width of 2: the writer
\* raises for no channel, no frame rate, and for a header field that does
\* not fit its 16 or 32 bits
wave_ok(snd_channel, snd_frame_rate) ==
    /\ snd_channel >= 1 /\ snd_frame_rate >= 1
    /\ 2 * snd_channel <= 65535
    /\ snd_frame_rate <= 2147483647 \div snd_channel

\* the header after the identificator at q - 4, the payload, the file
snd_length_at(ddb, q)     == from_bytes(Rd(ddb, q, 4))
snd_frame_rate_at(ddb, q) == from_bytes(Rd(ddb, q + 4, 4))
snd_channel_at(ddb, q)    == from_bytes(Rd(ddb, q + 8, 2))
dump_ok(ddb, q) ==
    /\ read_ok(snd_length_at(ddb, q) - 18)
    /\ wave_ok(snd_channel_at(ddb, q), snd_frame_rate_at(ddb, q))
dump_wav(ddb, q, output_path) ==
    [path |-> output_path,
     nchannels |-> snd_channel_at(ddb, q),
     framerate |-> snd_frame_rate_at(ddb, q),
     frames |-> file_read(ddb, q + 14, snd_length_at(ddb, q) - 18)]

\* ---- the actions

\* the turn of a loop over the units: found says whether a header was
\* found and at where, reported whether the message of a miss can be
\* printed.  A miss is reported and passed over; a refused read or write
\* ends the program
ExtractCarry(unit, name, found, at, reported) ==
    IF ~found /\ reported
    THEN /\ ext' = [ext EXCEPT !.units = Tail(@),
                               !.misses = Append(@, unit.phonemes)]
         /\ UNCHANGED pc
    ELSE IF ~found \/ ~dump_ok(ddb_bytes, at + 4)
    THEN /\ pc' = "extract_failed"
         /\ ext' = [ext EXCEPT !.raised = Append(@, at)]
    ELSE /\ ext' = [ext EXCEPT !.units = Tail(@),
                               !.wavs = Append(@, dump_wav(ddb_bytes, at + 4, name)),
                               !.snd_pos_list = Append(@, at)]
         /\ UNCHANGED pc

\* the name of the file of a unit of the index
unit_name(unit) ==
    create_file_name(unit.phonemes, ext.style, ref_offset(unit.item.snd),
                     unit.item.pitch1, S_wav)

\* lines 318-334: the list of articulation units is made
ExtractWalk ==
    /\ pc = "parsed" /\ ext # <<>> /\ ext.stage = "read"
    /\ ext' = [ext EXCEPT !.stage = "art", !.units = make_art_list(art_data)]
    /\ pc' = "dump_art"
    /\ UNCHANGED <<searchVars, modelVars, packVars, mix, input>>

\* ---- lines 374-407: the files of the segmentation (--gen_seg; --gen_lab
\* is taken as not given)

S_trans == <<116, 114, 97, 110, 115>>                  \* 'trans'
S_seg   == <<115, 101, 103>>                           \* 'seg'
S_as0   == <<97, 115, 48>>                             \* 'as0'

\* a key of a dict: an int or a str; no int is equal to a str
PyInt(n) == <<"int", n>>
PyStr(s) == <<"str", s>>
\* the keys of ddi_model.phdc_data: none before read_phdc (ddi_utils.py:76),
\* 'phoneme', 'phg2' and 'category' after it; the keys of
\* phdc_data['phoneme'] are the integers 0 and 1 (ddi_utils.py:258)
phdc_keys(phdc) ==
    IF phdc = <<>> THEN {} ELSE {PyStr("phoneme"), PyStr("phg2"), PyStr("category")}
phoneme_keys == {PyInt("0"), PyInt("1")}
\* ddi_model.phdc_data["phoneme"]["unvoiced"] does not raise KeyError
unvoiced_found(phdc) ==
    PyStr("phoneme") \in phdc_keys(phdc) /\ PyStr("unvoiced") \in phoneme_keys

\* generate_seg_files reads frame_align[i] for each phoneme, the middle
\* one of three twice
seg_ok(phonemes, frame_align) ==
    Len(frame_align) >= (IF Len(phonemes) = 3 THEN 4 ELSE Len(phonemes))

seg_names(unit) ==
    [k \in 1..3 |->
        create_file_name(unit.phonemes, ext.style, ref_offset(unit.item.snd),
                         unit.item.pitch1, <<S_trans, S_seg, S_as0>>[k])]

\* the turn of a unit that was dumped and has a frame-alignment table:
\* the WAV is written and its position noted (lines 367-372), then the
\* unvoiced phonemes are looked up (line 389) and the three files written
SegCarry(unit, name, at) ==
    IF unvoiced_found(phdc_data) /\ seg_ok(unit.phonemes, unit.item.frame_align)
    THEN /\ ext' = [ext EXCEPT !.units = Tail(@),
                               !.wavs = Append(@, dump_wav(ddb_bytes, at + 4, name)),
                               !.snd_pos_list = Append(@, at),
                               !.segs = @ \o seg_names(unit)]
         /\ UNCHANGED pc
    ELSE /\ ext' = [ext EXCEPT !.wavs = Append(@, dump_wav(ddb_bytes, at + 4, name)),
                               !.snd_pos_list = Append(@, at),
                               !.raised = Append(@, at)]
         /\ pc' = "extract_failed"

\* lines 336-407, one turn.  For a unit whose declared offset does not
\* start with 'SND ' the message of lines 352-353 names i, a local of main
\* that is bound only by the scan (line 509): UnboundLocalError
ExtractArtp ==
    /\ pc = "dump_art" /\ ext.units # <<>>
    /\ LET unit == Head(ext.units)
           at == ref_offset(unit.item.snd)
       IN  IF /\ Rd(ddb_bytes, at, 4) = SND_ /\ dump_ok(ddb_bytes, at + 4)
              /\ ext.gen_seg /\ unit.item.frame_align # <<>>
           THEN SegCarry(unit, unit_name(unit), at)
           ELSE ExtractCarry(unit, unit_name(unit),
                             Rd(ddb_bytes, at, 4) = SND_, at, FALSE)
    /\ UNCHANGED <<searchVars, modelVars, packVars, mix, input>>

\* line 410: the articulation units are done, the stationary units begin
ExtractSta ==
    /\ pc = "dump_art" /\ ext.units = <<>>
    /\ ext' = [ext EXCEPT !.stage = "sta", !.units = make_sta_list(sta_data)]
    /\ pc' = "dump_sta"
    /\ UNCHANGED <<searchVars, modelVars, packVars, mix, input>>

\* lines 412-451, one turn: the header is searched backward from the
\* declared offset, within 0x8000 bytes
ExtractStap ==
    /\ pc = "dump_sta" /\ ext.units # <<>>
    /\ LET unit == Head(ext.units)
           at == stream_reverse_search(ddb_bytes, SND_, ref_offset(unit.item.snd), 32768)
       IN  /\ ExtractCarry(unit, unit_name(unit), at # -1, at, TRUE)
           /\ real_snd_offset' = at
    /\ UNCHANGED <<ddb_bytes, snd_offset, limit, rs_result, modelVars, packVars,
                   mix, input>>

\* lines 454-455: the growl units begin, when the index has a VQM section
ExtractVqm ==
    /\ pc = "dump_sta" /\ ext.units = <<>>
    /\ ext' = [ext EXCEPT !.stage = "vqm",
                          !.units = IF DictHas(ddi_data_dict, "vqm")
                                    THEN make_vqm_list(vqm_data.dict) ELSE <<>>]
    /\ pc' = "dump_vqm"
    /\ UNCHANGED <<searchVars, modelVars, packVars, mix, input>>

\* lines 456-491, one turn
ExtractVqmp ==
    /\ pc = "dump_vqm" /\ ext.units # <<>>
    /\ LET unit == Head(ext.units)
       IN  ExtractCarry(unit, unit_name(unit),
                        Rd(ddb_bytes, ref_offset(unit.item.snd), 4) = SND_,
                        ref_offset(unit.item.snd), TRUE)
    /\ UNCHANGED <<searchVars, modelVars, packVars, mix, input>>

\* lines 497-499: ddb_f.seek(0), the scan begins
ScanStart ==
    /\ pc = "dump_vqm" /\ ext.units = <<>>
    /\ ext' = [ext EXCEPT !.stage = "scan", !.tell = 0]
    /\ pc' = "scan"
    /\ UNCHANGED <<searchVars, modelVars, packVars, mix, input>>

\* ---- lines 497-554: the scan for chunks the index does not reach

buffer_len == 10240

\* the members of a set of positions, rising
RECURSIVE Rising(_)
Rising(S) ==
    IF S = {} THEN <<>>
    ELSE LET m == CHOOSE x \in S : \A y \in S : x <= y
         IN  <<m>> \o Rising(S \ {m})

InList(x, l) == \E k \in 1..Len(l) : l[k] = x

\* for i in range(0, len(buffer)): if buffer[i:i+4] == start_encode
buffer_hits(buffer) == {i \in 0..(Len(buffer) - 1) : Rd(buffer, i, 4) = SND_}

\* the positions of the window whose dump raises: not dumped before, and
\* refused by read() or by the writer
window_raises(ddb, buffer_offset, hits, pos_list) ==
    {i \in hits : ~InList(buffer_offset + i, pos_list)
                   /\ ~dump_ok(ddb, buffer_offset + i + 4)}

\* the positions the inner loop comes to: all, or up to the first that raises
window_found(buffer_offset, hits, raises) ==
    [k \in 1..Len(Rising({i \in hits : \A j \in raises : i <= j})) |->
        buffer_offset + Rising({i \in hits : \A j \in raises : i <= j})[k]]

\* the files the inner loop writes, in order
window_wavs(ddb, found, raises, pos_list, name_style) ==
    LET todo_ == SelectSeq(found, LAMBDA p : ~InList(p, pos_list) /\ dump_ok(ddb, p + 4))
    IN  [k \in 1..Len(todo_) |->
           dump_wav(ddb, todo_[k] + 4,
                    create_file_name(<<>>, name_style, todo_[k], 0, S_wav))]

\* the position of the file after the inner loop: behind the window, or
\* behind what was read of the last chunk it came to (lines 525-539)
after_header(ddb, p) == IF p + 18 < Len(ddb) THEN p + 18 ELSE Len(ddb)
window_tell(ddb, buffer_offset, buffer, found, pos_list) ==
    IF found = <<>> THEN buffer_offset + Len(buffer)
    ELSE IF InList(found[Len(found)], pos_list)
         THEN after_header(ddb, found[Len(found)])
         ELSE after_header(ddb, found[Len(found)])
              + Len(file_read(ddb, found[Len(found)] + 18,
                              snd_length_at(ddb, found[Len(found)] + 4) - 18))

\* the window that follows one read from buffer_offset, wherever the
\* reads of the chunks left the file
scan_seek_none(buffer_offset, pos) == pos
\* line 554: ddb_f.seek(buffer_offset + buffer_len - 4)
scan_seek(buffer_offset, pos) == buffer_offset + buffer_len - 4

\* the window after the inner loop
ScanCarry(buffer, hits, raises, found) ==
    /\ ext' = [ext EXCEPT
                 !.found = @ \o found,
                 !.wavs = @ \o window_wavs(ddb_bytes, found, raises,
                                           ext.snd_pos_list, ext.style),
                 !.raised = IF raises = {} THEN @ ELSE Append(@, found[Len(found)]),
                 !.windows = @ + 1,
                 !.tell = IF raises = {} /\ Len(buffer) = buffer_len
                          THEN scan_seek(ext.tell,
                                         window_tell(ddb_bytes, ext.tell, buffer,
                                                     found, ext.snd_pos_list))
                          ELSE @]
    /\ pc' = IF raises # {} THEN "extract_failed"
             ELSE IF Len(buffer) < buffer_len THEN "extracted"
             ELSE "scan"

ScanHits(buffer, hits) ==
    \E raises \in {window_raises(ddb_bytes, ext.tell, hits, ext.snd_pos_list)} :
        \E found \in {window_found(ext.tell, hits, raises)} :
            ScanCarry(buffer, hits, raises, found)

\* one turn of the while loop: a window is read and searched; an empty
\* read ends the scan, a short one ends it after the search
ScanBuffer(buffer) ==
    IF buffer = <<>>
    THEN /\ pc' = "extracted"
         /\ UNCHANGED ext
    ELSE \E hits \in {buffer_hits(buffer)} : ScanHits(buffer, hits)

ScanWindow ==
    /\ pc = "scan"
    /\ \E buffer \in {Rd(ddb_bytes, ext.tell, buffer_len)} : ScanBuffer(buffer)
    /\ UNCHANGED <<searchVars, modelVars, packVars, mix, input>>

NextExtract ==
    NextRead \/ ExtractWalk \/ ExtractArtp \/ ExtractSta \/ ExtractStap
    \/ ExtractVqm \/ ExtractVqmp \/ ScanStart \/ ScanWindow
NextScan == ScanWindow
-----------------------------------------------------------------------------
(* extract_wav.py: Ctrl+C during the scan.  KeyboardInterrupt is raised in
   the main thread wherever the signal finds it inside the try statement:
   while a window is read or searched, between two dumps, or inside the
   with statement that writes a file. *)

\* what an interrupted `with wave.open(path, "wb")` leaves: the file has
\* been truncated by the open; closing it writes nothing when the
\* parameters were not yet set, and otherwise the header of a file of no
\* frames
wave_cut(w) ==
    {[w EXCEPT !.nchannels = 0, !.framerate = 0, !.frames = <<>>],
     [w EXCEPT !.frames = <<>>]}

\* the files the signal can find open after n positions of the window
cut_files(ddb, found, n, pos_list, name_style) ==
    IF n < Len(found) /\ ~InList(found[n + 1], pos_list)
       /\ dump_ok(ddb, found[n + 1] + 4)
    THEN wave_cut(dump_wav(ddb, found[n + 1] + 4,
                           create_file_name(<<>>, name_style, found[n + 1], 0, S_wav)))
    ELSE {}

\* except KeyboardInterrupt: print("Scanning aborted"), then print("Done")
CancelCarry(found, done, cut) ==
    /\ ext' = [ext EXCEPT
                 !.found = @ \o found,
                 !.wavs = @ \o window_wavs(ddb_bytes, done, {},
                                           ext.snd_pos_list, ext.style),
                 !.aborted = TRUE,
                 !.cut = cut]
    /\ pc' = "extracted"

\* the signal arrives after n positions of the window, between two dumps
\* or inside the next one
CancelFound(found, last) ==
    \E n \in 0..last :
        \/ CancelCarry(SubSeq(found, 1, n), SubSeq(found, 1, n), <<>>)
        \/ \E w \in cut_files(ddb_bytes, found, n, ext.snd_pos_list, ext.style) :
              CancelCarry(SubSeq(found, 1, n + 1), SubSeq(found, 1, n), <<w>>)

CancelHits(hits, raises) ==
    CancelFound(window_found(ext.tell, hits, raises),
                Len(window_found(ext.tell, hits, raises))
                    - (IF raises = {} THEN 0 ELSE 1))

CancelBuffer(buffer) ==
    CancelHits(buffer_hits(buffer),
               window_raises(ddb_bytes, ext.tell, buffer_hits(buffer),
                             ext.snd_pos_list))

ScanCancel ==
    /\ pc = "scan"
    /\ CancelBuffer(Rd(ddb_bytes, ext.tell, buffer_len))
    /\ UNCHANGED <<searchVars, modelVars, packVars, mix, input>>

NextCancel == ScanWindow \/ ScanCancel
-----------------------------------------------------------------------------
(* extract_wav.py: the functions of the names, applied to a unit alone *)

\* create_file_name(phonemes, name_style, offset, pitch, dst_path, file_type)
CreateFileName ==
    /\ pc = "name"
    /\ ext' = [ext EXCEPT !.name = create_file_name(ext.unit.phonemes, ext.style,
                                                    ext.unit.offset, ext.unit.pitch,
                                                    ext.file_type)]
    /\ pc' = "named"
    /\ UNCHANGED <<searchVars, modelVars, packVars, mix, input>>

NextName == CreateFileName

\* unescape_xsampa: the chain of replace() of lines 40-47, one character at
\* a time: no replacement character is replaced by a later link
unescape_char(b) ==
    CASE b = 45  -> 92         \* '-' -> '\'
      [] b = 126 -> 47         \* '~' -> '/'
      [] b = 33  -> 63         \* '!' -> '?'
      [] b = 59  -> 58         \* ';' -> ':'
      [] b = 40  -> 60         \* '(' -> '<'
      [] b = 41  -> 62         \* ')' -> '>'
      [] OTHER   -> b
unescape_xsampa(xsampa) == [i \in 1..Len(xsampa) |-> unescape_char(xsampa[i])]

EscapeXsampa ==
    /\ pc = "escape"
    /\ ext' = [ext EXCEPT !.escaped = escape_xsampa(ext.xsampa)]
    /\ pc' = "unescape"
    /\ UNCHANGED <<searchVars, modelVars, packVars, mix, input>>

UnescapeXsampa ==
    /\ pc = "unescape"
    /\ ext' = [ext EXCEPT !.unescaped = unescape_xsampa(ext.escaped)]
    /\ pc' = "unescaped"
    /\ UNCHANGED <<searchVars, modelVars, packVars, mix, input>>

NextXsampa == EscapeXsampa \/ UnescapeXsampa
-----------------------------------------------------------------------------
(* The indexes and singer trees that the parser and pack are run on *)

MaxStau == 2      \* STAu per index
MaxStap == 2      \* STAp per STAu
MaxEpr  == 2      \* EpR references per unit
MaxArtp == 2      \* ARTp per ARTu

PhOf(i) == <<96 + i>>                  \* 'a', 'b', ...
EprOffsets(n) == [k \in 1..n |-> 16 * (k - 1)]

MkStap(j, nEpr, snd) ==
    [idx |-> str_of(j - 1), epr |-> EprOffsets(nEpr), snd |-> snd, id |-> j,
     snd_length |-> 18]
MkStau(i, ph, nStap, nEpr, snd) ==
    [idx |-> i, ph |-> ph, stap |-> [j \in 1..nStap |-> MkStap(j, nEpr, snd)]]
MkArtp(j, nEpr, tonio, snd, align) ==
    [dev |-> 0, idx |-> j, snd_unknown |-> 0, tonio |-> tonio, extra |-> 0,
     epr |-> EprOffsets(nEpr), id |-> j, snd |-> snd, snd_start |-> snd + 2,
     align |-> align]
MkArtu(i, ph, nArtp, nEpr, tonio, snd, align) ==
    [tag |-> "artu", idx |-> i, ph |-> ph,
     artp |-> [j \in 1..nArtp |-> MkArtp(j, nEpr, tonio, snd, align)]]
MkBlock(i, ph, children) == [tag |-> "art", idx |-> i, ph |-> ph, children |-> children]
MkVqmp(j, nEpr) == [idx |-> str_of(j - 1), epr |-> EprOffsets(nEpr), snd |-> 61, id |-> j]

MkIndex(phdc, tdb, sta, art, has_vqm, bad) ==
    [phdc |-> phdc, tdb |-> tdb, sta |-> sta, art |-> art, has_vqm |-> has_vqm,
     vqm |-> <<MkVqmp(1, 1)>>, bad |-> bad, tree |-> "none"]

\* ---- frame-alignment tables
AlignTables ==
    { <<>>,                                                  \* L = 0
      u32(3),                                                \* L = 4
      u32(3) \o u32(7),                                      \* L = 8, flat
      u32(3) \o u32(7) \o u32(9),                            \* L = 12, flat
      u32(1) \o u32(2) \o u32(4) \o u32(6) \o u32(8),        \* L = 20 = 1*16 + 4
      u32(2) \o u32(1) \o u32(2) \o u32(3) \o u32(4)
             \o u32(5) \o u32(6) \o u32(7) \o u32(8) }       \* L = 36 = 2*16 + 4

\* ---- the children of an 'ART ' block
ArtShapes == {"artu", "two", "dup_artu", "sub", "dup_sub", "other"}
ChildrenAt(shape, nArtp, align, snd) ==
    LET U(i, ph, n) == MkArtu(i, ph, n, 1, FALSE, snd, align)
    IN  CASE shape = "artu"     -> <<U(1, PhOf(2), nArtp)>>
          [] shape = "two"      -> <<U(2, PhOf(2), nArtp), U(1, PhOf(3), 1)>>
          [] shape = "dup_artu" -> <<U(1, PhOf(2), nArtp), U(1, PhOf(3), 1)>>
          [] shape = "sub"      -> <<MkBlock(1, PhOf(2), <<U(1, PhOf(3), nArtp)>>),
                                     U(1, PhOf(4), 1)>>
          [] shape = "dup_sub"  -> <<MkBlock(1, PhOf(2), <<U(1, PhOf(3), nArtp)>>),
                                     MkBlock(1, PhOf(4), <<U(2, PhOf(3), 1)>>)>>
          [] shape = "other"    -> <<U(1, PhOf(2), nArtp), [tag |-> "other"]>>
Children(shape, nArtp, align) == ChildrenAt(shape, nArtp, align, 34)

\* ---- the fields the parser asserts, by the name the writer knows them
BadFields ==
    {"stap.zero", "stap.tag", "stap.3d", "stap.empt", "stap.snd", "stap.0100",
     "stau.tag", "stau.ff", "sta.arr", "sta.one", "sta.normal",
     "artp.tag", "artp.empt", "artp.epr", "artp.0100", "artp.default",
     "child.zero", "artu.ff", "art.one", "art.arr", "art.tag", "art.articulation",
     "vqmp.ff", "vqmp.tag", "vqmp.0100", "vqmu.tag", "vqm.growl",
     "dbv.one", "tmm.tag", "tdb.one", "tdb.timbre", "phdc.four", "phg2.tag"}

Full(tonio, bad) ==
    MkIndex(TRUE, TRUE, <<MkStau(1, PhOf(1), 1, 1, 79)>>,
            <<MkBlock(1, PhOf(1),
                      <<MkArtu(1, PhOf(2), 1, 1, tonio, 34, u32(3))>>)>>,
            TRUE, bad)

\* ---- the indexes the parser is run on
CleanInputs ==
    { MkIndex(phdc, tdb, <<MkStau(1, PhOf(1), nStap, MaxEpr, 79)>>,
              <<MkBlock(1, PhOf(1),
                        <<MkArtu(1, PhOf(2), 1, 1, tonio, snd, u32(3))>>)>>,
              has_vqm, "none") :
        phdc \in BOOLEAN, tdb \in BOOLEAN, has_vqm \in BOOLEAN,
        nStap \in 0..MaxStap, tonio \in BOOLEAN, snd \in {5, 34} }
BadInputs ==
    { Full(FALSE, bad) : bad \in BadFields } \cup { Full(TRUE, "artp.0100") }
ArtInputs ==
    { MkIndex(FALSE, FALSE, <<>>,
              <<MkBlock(1, PhOf(1), Children(shape, nArtp, align))>>, FALSE, "none") :
        shape \in ArtShapes, nArtp \in 1..MaxArtp, align \in AlignTables }
ReadInputs == CleanInputs \cup BadInputs \cup ArtInputs

InitModel(d) ==
    /\ input = d
    /\ ddi_bytes = EncIndex(d)
    /\ ddi_pos = 0
    /\ phdc_data = <<>> /\ tdb_data = <<>> /\ sta_data = <<>> /\ art_data = <<>>
    /\ vqm_data = Some(<<>>) /\ offset_map = <<>> /\ ddi_data_dict = <<>>
    /\ recovered = 0

InitRead ==
    /\ pc = "phdc"
    /\ \E d \in ReadInputs : InitModel(d)
    /\ IdleSearch /\ IdlePack /\ IdleTools

SpecRead == InitRead /\ [][NextRead]_vars

\* ---- singer trees: the chunk files that extraction leaves
FrmChunk(k) == FRM2 \o u32(16) \o Rep(k, 8)
SndChunk(k) == SND_ \o u32(18) \o Rep(k, 10)
StaChunkFile(stap) ==
    PadTo(Cat([k \in 1..Len(stap.epr) |-> FrmChunk(k)]), 61) \o SndChunk(stap.id)
ArtChunkFile(artps) ==
    IF artps = <<>> THEN <<>>
    ELSE Cat([k \in 1..Len(artps[1].epr) |-> FrmChunk(k)]) \o SndChunk(artps[1].id)

StaFiles(sta) ==
    Cat([i \in 1..Len(sta) |->
           [j \in 1..Len(sta[i].stap) |->
              [k |-> sta_file_of(sta[i].ph, j - 1), v |-> StaChunkFile(sta[i].stap[j])]]])
ArtFiles(art) ==
    Cat([i \in 1..Len(art) |->
           [j \in 1..Len(art[i].children) |->
              [k |-> art_file_of(Join(art[i].ph, art[i].children[j].ph), NoFile),
               v |-> ArtChunkFile(art[i].children[j].artp)]]])

\* a complete tree, one that lacks its last file, one whose last file has
\* no 'SND ' at 0x3D, one whose first file
\* does not start with a chunk header
TreeKinds == {"complete", "missing", "broken", "no_snd"}
\* a chunk file with the identificator at 0x3D spoilt
NoSndAt(file) == IF Len(file) > 61 THEN [file EXCEPT ![62] = 88] ELSE file
TreeOf(d, kind) ==
    LET files == ArtFiles(d.art) \o StaFiles(d.sta)
    IN  IF kind = "missing" THEN SubSeq(files, 1, Len(files) - 1)
        ELSE IF kind = "broken" /\ files # <<>>
        THEN <<[files[1] EXCEPT !.v = <<33>> \o SubSeq(@, 2, Len(@))]>> \o Tail(files)
        ELSE IF kind = "no_snd" /\ files # <<>>
        THEN SubSeq(files, 1, Len(files) - 1)
             \o <<[files[Len(files)] EXCEPT !.v = NoSndAt(@)]>>
        ELSE files

\* the phonemes of the STAu of an index, by STAu index: rising with the
\* index, one phoneme for all, or falling
PhOrders == {"asc", "same", "desc"}
PhIn(order, i) ==
    IF order = "asc" THEN PhOf(i)
    ELSE IF order = "same" THEN PhOf(1)
    ELSE PhOf(MaxStau + 2 - i)

PackInputs ==
    { [MkIndex(FALSE, FALSE,
               [i \in 1..nStau |->
                   MkStau(i, PhIn(order, i), nStap, nEpr, snd)],
               <<MkBlock(1, PhOf(1),
                         [i \in 1..nArtu |->
                             MkArtu(i, PhOf(i + 1), nArtp, nEpr, FALSE, 16 * nEpr + 18,
                                    u32(3))])>>,
               has_vqm, "none") EXCEPT !.tree = kind] :
        nStau \in 0..MaxStau, order \in PhOrders, nStap \in 1..MaxStap,
        nEpr \in {0, MaxEpr}, snd \in {61, 79}, nArtu \in 0..1, nArtp \in 0..1,
        has_vqm \in BOOLEAN, kind \in TreeKinds }

InitPack ==
    /\ pc = "main"
    /\ \E d \in PackInputs : InitModel(d) /\ tree = TreeOf(d, d.tree)
    /\ ddi_data = <<>> /\ ddb_f = NoFile /\ ddi_file = NoFile
    /\ art_file = NoFile /\ todo = <<>> /\ log = <<>>
    /\ IdleSearch /\ IdleTools

SpecPack == InitPack /\ [][NextPack]_vars
-----------------------------------------------------------------------------
(* The recipients and donors the mix-in is run on *)

F440 == <<0, 0, 220, 67>>              \* struct.pack('<f', 440.0)

\* the donor data file: nFrm FRM2 chunks of 16 bytes, then nSnd SND chunks
\* of 18 bytes; "broken": the first chunk has no header; "short": the file
\* ends four bytes early
DdbKinds == {"ok", "broken", "short"}
MixDdb(nFrm, nSnd, kind) ==
    LET ddb == Cat([k \in 1..nFrm |-> FrmChunk(k)])
               \o Cat([j \in 1..nSnd |-> SndChunk(j)])
    IN  IF kind = "broken" THEN <<33>> \o Tail(ddb)
        ELSE IF kind = "short" THEN SubSeq(ddb, 1, Len(ddb) - 4)
        ELSE ddb

\* a donor VQMp: its EpR point at the first nEpr FRM2 chunks, its SND at
\* the j-th SND chunk behind nFrm FRM2 chunks
DonorVqmp(j, nEpr, nFrm, pitch1) ==
    [idx |-> str_of(j - 1), epr |-> EprOffsets(nEpr), id |-> j,
     snd |-> 16 * nFrm + 18 * (j - 1),
     prefix |-> Rep(j, 10), pitch1 |-> pitch1, pitch2 |-> F440]
\* a donor STAp: its SND offset is delta bytes into its SND chunk; the
\* first STAp of a donor may have fewer EpR than the others
DonorStap(j, nEpr, nFrm, delta) ==
    MkStap(j, nEpr, 16 * nFrm + 18 * (j - 1) + delta)

\* the recipient: one STAu, an empty articulation block; footer "last":
\* the index ends with 'voice'; "two": the STAu is of the phoneme 'voice'
\* as well; "none": no 'voice' at all
Footers == {"last", "two", "none"}
MixSrc(has_vqm, footer, bad) ==
    [footer |-> footer # "none"] @@
    MkIndex(FALSE, FALSE,
            <<MkStau(1, IF footer = "two" THEN S_voice ELSE PhOf(1), 1, 1, 79)>>,
            <<MkBlock(1, PhOf(1), <<>>)>>, has_vqm, bad)
MixSrcDdb == FrmChunk(7) \o SndChunk(9)

Recipients ==
    { [src |-> MixSrc(FALSE, footer, "none"), choice |-> "y"] : footer \in Footers }
    \cup { [src |-> MixSrc(TRUE, "last", "none"), choice |-> c] : c \in Choices }
    \cup { [src |-> MixSrc(FALSE, "last", "dbv.one"), choice |-> "y"] }

VqmDonors ==
    { [ddi |-> [footer |-> TRUE] @@
               [MkIndex(FALSE, FALSE, <<MkStau(1, PhOf(1), 1, 1, 79)>>,
                        <<MkBlock(1, PhOf(1), <<>>)>>, has_vqm, "none")
                  EXCEPT !.vqm = [j \in 1..nVqmp |-> DonorVqmp(j, nEpr, MaxEpr, pitch1)]],
       ddb |-> MixDdb(MaxEpr, MaxStap, kind)] :
        has_vqm \in BOOLEAN, nVqmp \in 0..MaxStap, nEpr \in {0, MaxEpr},
        pitch1 \in {F224, F440}, kind \in DdbKinds }

Sta2VqmShapes ==
    { s \in [nStap : 1..MaxStap, nEpr : {MaxEpr, EprTake, EprTake + 1},
             first_short : BOOLEAN] :
        s.first_short => (s.nStap > 1 /\ s.nEpr > MaxEpr) }
Sta2VqmDonors ==
    { [ddi |-> [footer |-> TRUE] @@
               MkIndex(FALSE, FALSE,
                       <<[idx |-> 1, ph |-> PhOf(1),
                          stap |-> [j \in 1..s.nStap |->
                                      DonorStap(j, IF j = 1 /\ s.first_short
                                                   THEN MaxEpr ELSE s.nEpr,
                                                EprTake + 1, delta)]]>>,
                       <<MkBlock(1, PhOf(1), <<>>)>>, FALSE, "none"),
       ddb |-> MixDdb(EprTake + 1, MaxStap, kind)] :
        s \in Sta2VqmShapes, delta \in {0, 12}, kind \in {"ok", "broken"} }

MixInputs ==
    { [item |-> "vqm", phoneme |-> PhOf(1), src |-> r.src, choice |-> r.choice,
       src_ddb |-> MixSrcDdb, mixins |-> m.ddi, mixins_ddb |-> m.ddb] :
        r \in Recipients, m \in VqmDonors }
    \cup
    { [item |-> "sta2vqm", phoneme |-> ph, src |-> r.src, choice |-> r.choice,
       src_ddb |-> MixSrcDdb, mixins |-> m.ddi, mixins_ddb |-> m.ddb] :
        r \in {q \in Recipients : q.choice = "y"}, m \in Sta2VqmDonors,
        ph \in {PhOf(1), PhOf(2)} }

InitMixin ==
    /\ pc = "phdc"
    /\ \E d \in MixInputs :
          /\ input = d
          /\ ddi_bytes = EncIndex(d.mixins)
          /\ mix = [stage |-> "mixins", item |-> d.item, choice |-> d.choice,
                    phoneme |-> d.phoneme, src_ddi |-> EncIndex(d.src),
                    src_ddb |-> d.src_ddb, mixins_ddb |-> d.mixins_ddb,
                    mixins_vqm_data |-> None, mixins_sta_data |-> <<>>,
                    units |-> <<>>, vqm_idx |-> 0, vqm_meta_list |-> <<>>,
                    ddi_vqm_bytes |-> <<>>, ddi_vqm_pos |-> 0]
    /\ ddi_pos = 0
    /\ phdc_data = <<>> /\ tdb_data = <<>> /\ sta_data = <<>> /\ art_data = <<>>
    /\ vqm_data = Some(<<>>) /\ offset_map = <<>> /\ ddi_data_dict = <<>>
    /\ recovered = 0
    /\ tree = <<>> /\ ddi_data = <<>> /\ ddb_f = NoFile /\ ddi_file = NoFile
    /\ art_file = NoFile /\ todo = <<>> /\ log = <<>>
    /\ ext = <<>>
    /\ IdleSearch

SpecMixin == InitMixin /\ [][NextMixin]_vars
-----------------------------------------------------------------------------
(* _create_vqm_stream and read_vqm, one after the other: the image of a    *)
(* list of entries is built and then read from its first byte.             *)

MaxVqmp == 2      \* entries per list

\* '0', '1', '01', '10'
IdxStrings == {<<48>>, <<49>>, <<48, 49>>, <<49, 48>>}

\* an entry of the given idx; kind chooses the rest of its fields
VqmKinds == {"bare", "growl", "one"}
VqmEntry(idx, kind) ==
    [idx |-> idx,
     epr |-> IF kind = "bare" THEN <<>> ELSE IF kind = "growl" THEN <<0, 70000>>
             ELSE <<16>>,
     snd_id |-> IF kind = "growl" THEN 258 ELSE 1,
     snd |-> IF kind = "bare" THEN 0 ELSE IF kind = "growl" THEN 70016 ELSE 32,
     unknown1 |-> IF kind = "bare" THEN bytes_to_str(ZZ(10)) ELSE Sta2VqmPrefix,
     pitch1 |-> IF kind = "bare" THEN F224 ELSE F440,
     pitch2 |-> IF kind = "growl" THEN F440 ELSE F224,
     unknown2 |-> ZZ(4),
     unknown3 |-> IF kind = "one" THEN F440 ELSE ZZ(4),
     dynamics |-> IF kind = "growl" THEN F224 ELSE ZZ(4)]

VqmEntries == {VqmEntry(idx, kind) : idx \in IdxStrings, kind \in VqmKinds}

\* the ordered lists of at most MaxVqmp entries with distinct idx strings
VqmLists ==
    UNION {{l \in [1..n -> VqmEntries] :
              \A i, j \in 1..n : i # j => l[i].idx # l[j].idx} : n \in 0..MaxVqmp}

InitVqm ==
    /\ pc = "entries"
    /\ \E l \in VqmLists :
          /\ input = l
          /\ mix = [stage |-> "entries", item |-> "vqm", choice |-> "",
                    phoneme |-> <<>>, src_ddi |-> <<>>, src_ddb |-> <<>>,
                    mixins_ddb |-> <<>>, mixins_vqm_data |-> None,
                    mixins_sta_data |-> <<>>, units |-> <<>>, vqm_idx |-> 0,
                    vqm_meta_list |-> l, ddi_vqm_bytes |-> <<>>, ddi_vqm_pos |-> 0]
    /\ ext = <<>>
    /\ IdleSearch /\ IdleModel /\ IdlePack

\* vqm_stream = _create_vqm_stream(vqm_meta_list); vqm_stream.getvalue()
CreateVqmStream ==
    /\ pc = "entries"
    /\ mix' = [mix EXCEPT !.stage = "image",
                          !.ddi_vqm_bytes = _create_vqm_stream(mix.vqm_meta_list)]
    /\ pc' = "image"
    /\ UNCHANGED <<searchVars, modelVars, packVars, ext, input>>

\* r is what read_vqm makes of the image, read from position 0
ReadVqmCarry(r) ==
    IF r.ok
    THEN /\ pc' = "read"
         /\ vqm_data' = Some(r.val)
         /\ ddi_pos' = r.pos
    ELSE /\ pc' = "read_failed"
         /\ UNCHANGED <<vqm_data, ddi_pos>>
ReadVqmImage ==
    /\ pc = "image"
    /\ ddi_bytes' = mix.ddi_vqm_bytes
    /\ ReadVqmCarry(read_vqm(mix.ddi_vqm_bytes, 0))
    /\ UNCHANGED <<phdc_data, tdb_data, sta_data, art_data, offset_map,
                   ddi_data_dict, recovered, searchVars, packVars, toolVars, input>>

NextVqm == CreateVqmStream \/ ReadVqmImage
SpecVqm == InitVqm /\ [][NextVqm]_vars
-----------------------------------------------------------------------------
(* The indexes and data files that extract is run on *)

\* a chunk: the identificator, the length, the frame rate, the channels,
\* four unknown bytes and the samples
u16(n) == to_bytes(n, 2)
WavChunk(k, channels, length) ==
    SND_ \o u32(length) \o Fs44100 \o u16(channels) \o u32(0) \o Rep(k, 4)
Spoilt(chunk) == <<88>> \o Tail(chunk)

\* the data file: the chunk of the stationary units at 8 (they declare the
\* offset 28, inside it), of the articulation units at 34 (the index holds
\* 34 + 18), of the growl at 61, and a chunk that the index does not know
\* at 90.  A kind names the
\* chunk that lacks its identificator, has no channel, or declares a
\* length below its header
DdbKindsOfExtract ==
    {"complete", "spare", "no_sta", "no_art", "no_vqm", "mute_art", "short_vqm",
     "mute_spare"}
ExtractDdb(kind) ==
    ZZ(8)
    \o (IF kind = "no_sta" THEN Spoilt(WavChunk(1, 1, 22)) ELSE WavChunk(1, 1, 22))
    \o ZZ(4)
    \o (IF kind = "no_art" THEN Spoilt(WavChunk(2, 1, 22))
        ELSE IF kind = "mute_art" THEN WavChunk(2, 0, 22) ELSE WavChunk(2, 1, 22))
    \o ZZ(5)
    \o (IF kind = "no_vqm" THEN Spoilt(WavChunk(3, 1, 22))
        ELSE IF kind = "short_vqm" THEN WavChunk(3, 1, 0) ELSE WavChunk(3, 1, 22))
    \o (IF kind = "spare" THEN ZZ(7) \o WavChunk(4, 2, 22)
        ELSE IF kind = "mute_spare" THEN ZZ(7) \o WavChunk(4, 0, 22) ELSE <<>>)

NameStyles == {"flat", "devkit"}

\* the arguments: the style of the names, --gen_seg given or not, and with
\* it an index with or without a phoneme dictionary
ExtractArgs ==
    { a \in [style : NameStyles, gen_seg : BOOLEAN, phdc : BOOLEAN,
             kind : DdbKindsOfExtract] :
        /\ a.phdc => a.gen_seg
        /\ a.gen_seg => a.kind \in {"complete", "no_art"} }
ExtractInputs ==
    { [MkIndex(a.phdc, FALSE,
               [i \in 1..nStau |-> MkStau(i, PhOf(i), 1, 1, 28)],
               <<MkBlock(1, PhOf(1), ChildrenAt(shape, nArtp, u32(3), 52))>>,
               has_vqm, "none") EXCEPT !.tree = a.kind]
      @@ [style |-> a.style, gen_seg |-> a.gen_seg] :
        nStau \in 0..1, shape \in ArtShapes, nArtp \in 1..MaxArtp,
        has_vqm \in BOOLEAN, a \in ExtractArgs }

\* main up to line 304
ExtStart(style, list) ==
    [stage |-> "read", style |-> style, units |-> <<>>, snd_pos_list |-> list,
     wavs |-> <<>>, misses |-> <<>>, raised |-> <<>>, found |-> <<>>,
     windows |-> 0, tell |-> 0, aborted |-> FALSE, cut |-> <<>>,
     gen_seg |-> FALSE, segs |-> <<>>]

InitExtract ==
    /\ pc = "phdc"
    /\ \E d \in ExtractInputs :
          /\ InitModel(d)
          /\ ddb_bytes = ExtractDdb(d.tree)
          /\ ext = [ExtStart(d.style, <<>>) EXCEPT !.gen_seg = d.gen_seg]
    /\ snd_offset = 0 /\ limit = 0 /\ real_snd_offset = -1 /\ rs_result = -1
    /\ mix = <<>>
    /\ IdlePack

SpecExtract == InitExtract /\ [][NextExtract]_vars

\* ---- the data files the scan alone is run on: a first chunk at 0 or
\* none, zeros, and a chunk at a position about the end of a window; the
\* file ends with that chunk or right after its identificator.  The chunk
\* has 4 bytes of samples and declares them, or more, or one byte less
\* than its header

MaxWindows == 3    \* windows a scanned file reaches into

WindowEnd(k) == (k - 1) * (buffer_len - 4) + buffer_len
ScanPositions ==
    {30} \cup UNION {(WindowEnd(k) - 8)..(WindowEnd(k) + 1) : k \in 1..(MaxWindows - 1)}
FirstChunks == {"none", "good", "mute", "short"}
LastLengths == {22, 24, 17}
ScanFile(first, p, whole, length) ==
    PadTo(CASE first = "good"  -> WavChunk(1, 1, 22)
            [] first = "mute"  -> WavChunk(1, 0, 22)
            [] first = "short" -> WavChunk(1, 1, 0)
            [] OTHER -> <<>>, p)
    \o (IF whole THEN WavChunk(2, 1, length) ELSE SND_)
ScanInputs ==
    { [first |-> first, p |-> p, whole |-> whole, length |-> length,
       dumped |-> dumped] :
        first \in FirstChunks, p \in ScanPositions, whole \in BOOLEAN,
        length \in LastLengths, dumped \in BOOLEAN }

\* main at line 497, with the chunk at 0 dumped through the index or not:
\* a chunk that was dumped is one that could be read and written
InitScan ==
    /\ pc = "scan"
    /\ \E d \in {s \in ScanInputs : /\ s.dumped => s.first = "good"
                                    /\ ~s.whole => s.length = 22} :
          /\ input = d
          /\ ddb_bytes = ScanFile(d.first, d.p, d.whole, d.length)
          /\ ext = [ExtStart("devkit", IF d.dumped THEN <<0>> ELSE <<>>)
                      EXCEPT !.stage = "scan"]
    /\ snd_offset = 0 /\ limit = 0 /\ real_snd_offset = -1 /\ rs_result = -1
    /\ mix = <<>>
    /\ IdleModel /\ IdlePack

SpecScan == InitScan /\ [][NextScan]_vars

\* the while loop runs on for as long as it is not ended: main is the one
\* thread of the program and nothing in a turn of the loop waits
SpecScanLive == InitScan /\ [][NextScan]_vars /\ WF_vars(NextScan)

\* the scan with Ctrl+C
SpecCancel == InitScan /\ [][NextCancel]_vars
-----------------------------------------------------------------------------
(* The units that are named, the strings that are escaped *)

MaxPhonemes == 3    \* phonemes of a unit

S_a   == <<97>>
S_i   == <<105>>
PhonemeNames ==
    {S_a, S_i, <<97, 45>>, <<97, 92>>, S_Sil, S_sil, S_growl}   \* 'a-', 'a\'
RECURSIVE ListsOver(_, _)
ListsOver(S, n) ==
    IF n = 0 THEN {<<>>}
    ELSE ListsOver(S, n - 1)
         \cup {Append(l, x) : l \in {m \in ListsOver(S, n - 1) : Len(m) = n - 1}, x \in S}
\* up to two phonemes of any name, up to MaxPhonemes of two names
PhonemeLists == ListsOver(PhonemeNames, 2) \cup ListsOver({S_a, S_i}, MaxPhonemes)

Fm375 == <<0, 0, 112, 192>>                 \* struct.pack('<f', -3.75)
F0125 == <<0, 0, 0, 62>>                    \* struct.pack('<f', 0.125)
NamePitches == {F224, Fm375, F0125}
NameOffsets == {52, 305441741}              \* 0x34, 0x1234abcd
NameUnits ==
    { [phonemes |-> l, offset |-> o, pitch |-> p] :
        l \in PhonemeLists, o \in NameOffsets, p \in NamePitches }

InitName ==
    /\ pc = "name"
    /\ \E u \in NameUnits, style \in NameStyles :
          /\ input = u
          /\ ext = [stage |-> "name", style |-> style, unit |-> u,
                    file_type |-> S_wav, name |-> <<>>]
    /\ mix = <<>>
    /\ IdleSearch /\ IdleModel /\ IdlePack

SpecName == InitName /\ [][NextName]_vars

MaxName == 3        \* characters of a phoneme name

\* 'a', 'S', 'i', 'l', and the characters that are replaced or replace
XsampaChars == {97, 83, 105, 108, 92, 45, 47, 126, 63, 33}
XsampaNames == ListsOver(XsampaChars, MaxName) \ {<<>>}

InitXsampa ==
    /\ pc = "escape"
    /\ \E x \in XsampaNames :
          /\ input = x
          /\ ext = [stage |-> "xsampa", xsampa |-> x, escaped |-> <<>>,
                    unescaped |-> <<>>]
    /\ mix = <<>>
    /\ IdleSearch /\ IdleModel /\ IdlePack

SpecXsampa == InitXsampa /\ [][NextXsampa]_vars
\* ---- the inputs of the search: a data file with 'SND ' at chosen places
DdbLen    == 12
MaxWindow == 6
MaxHeads  == 2

HeadSets ==
    {S \in SUBSET (0..(DdbLen - 4)) :
        /\ Cardinality(S) <= MaxHeads
        /\ \A a, b \in S : a # b => (a - b >= 4 \/ b - a >= 4)}

DdbWith(S) ==
    [i \in 1..DdbLen |->
        IF \E h \in S : i - 1 \in h..(h + 3)
        THEN SND_[i - (CHOOSE h \in S : i - 1 \in h..(h + 3))]
        ELSE 0]

HasSnd(data, p) == p >= 0 /\ Rd(data, p, 4) = SND_

InitSearch ==
    /\ pc = "search"
    /\ \E S \in HeadSets : ddb_bytes = DdbWith(S)
    /\ snd_offset \in 0..DdbLen
    /\ limit \in 0..MaxWindow
    /\ real_snd_offset = -1
    /\ rs_result = -1
    /\ IdleModel /\ IdlePack /\ IdleTools
    /\ input = <<>>

\* extract_wav.py:424-425: the stationary locator; and reverse_search on the
\* same arguments
LocateSta ==
    /\ pc = "search"
    /\ real_snd_offset' = stream_reverse_search(ddb_bytes, SND_, snd_offset, limit)
    /\ rs_result' = reverse_search(ddb_bytes, SND_, snd_offset, limit)
    /\ pc' = "searched"
    /\ UNCHANGED <<ddb_bytes, snd_offset, limit, modelVars, packVars, toolVars, input>>

NextSearch == LocateSta
SpecSearch == InitSearch /\ [][NextSearch]_vars

-----------------------------------------------------------------------------
\* C2: whenever the backward search with window w returns a position p other
\* than -1, d - w <= p <= d (d the declared offset).
C2_WithinWindow ==
    pc = "searched" =>
        /\ real_snd_offset # -1 =>
              snd_offset - limit <= real_snd_offset /\ real_snd_offset <= snd_offset
        /\ rs_result # -1 =>
              snd_offset - limit <= rs_result /\ rs_result <= snd_offset

\* C3: a header at h <= d within the window, with no header in (h, d], is
\* what the stationary locator returns; h = d and h = 0 included.
C3_ResolvesToHeader ==
    pc = "searched" =>
        \A h \in 0..snd_offset :
            ( /\ HasSnd(ddb_bytes, h)
              /\ snd_offset - h <= limit
              /\ \A q \in (h + 1)..snd_offset : ~HasSnd(ddb_bytes, q) )
            => real_snd_offset = h

-----------------------------------------------------------------------------
(* What the parser recorded, as sets, for the properties below *)

UnitsOf(d) == {d[i].v : i \in 1..Len(d)}

\* the 'ART ' blocks of the catalogue, the nested ones included
RECURSIVE AllBlocks(_)
AllBlocks(bs) ==
    IF bs = {} THEN {}
    ELSE bs \cup AllBlocks(UNION {UnitsOf(b.art) : b \in bs})

StaUnits == UNION {UnitsOf(u.stap) : u \in UnitsOf(sta_data)}
VqmUnits == IF vqm_data = None THEN {} ELSE UnitsOf(vqm_data.dict)
ArtUnits ==
    UNION {UnitsOf(u.artp) :
             u \in UNION {UnitsOf(b.artu) : b \in AllBlocks(UnitsOf(art_data))}}

\* the items of the derived catalogue under a key
DictItems(key) ==
    IF DictHas(ddi_data_dict, key)
    THEN UNION {{e.v[i] : i \in 1..Len(e.v)} :
                  e \in {DictGet(ddi_data_dict, key)[n] :
                           n \in 1..Len(DictGet(ddi_data_dict, key))}}
    ELSE {}
DictVqmItems ==
    IF DictHas(ddi_data_dict, "vqm")
    THEN {DictGet(ddi_data_dict, "vqm")[i] : i \in 1..Len(DictGet(ddi_data_dict, "vqm"))}
    ELSE {}

\* the 8 bytes at a site of a buffer are the u64 little-endian of n
U64Is(buf, site, n) == n >= 0 /\ Rd(buf, site, 8) = to_bytes(n, 8)

\* a recorded 'site=offset' reference describes the buffer, the value at
\* the site being the recorded offset plus bias
RefHolds(buf, ref, bias) == U64Is(buf, ref_site(ref), ref_offset(ref) + bias)
EprHold(buf, eprs) == \A k \in 1..Len(eprs) : RefHolds(buf, eprs[k], 0)

\* C1: after read() of an index that parses, the u64 at every recorded FRM2
\* site equals the recorded offset, the u64 at every STAp and VQMp SND site
\* equals the recorded offset, and the u64 at every ARTp snd and snd_start
\* site equals the recorded offset plus 0x12; in the section data and in the
\* derived catalogue alike.
C1_SitesDescribeBuffer ==
    pc = "parsed" =>
        /\ \A u \in StaUnits :
              EprHold(ddi_bytes, u.epr) /\ RefHolds(ddi_bytes, u.snd, 0)
        /\ \A u \in VqmUnits :
              EprHold(ddi_bytes, u.epr) /\ RefHolds(ddi_bytes, u.snd, 0)
        /\ \A u \in ArtUnits :
              /\ EprHold(ddi_bytes, u.epr)
              /\ RefHolds(ddi_bytes, u.snd, 18)
              /\ RefHolds(ddi_bytes, u.snd_start, 18)
        /\ \A u \in DictItems("sta") \cup DictVqmItems :
              EprHold(ddi_bytes, u.epr) /\ RefHolds(ddi_bytes, u.snd, 0)
        /\ \A u \in DictItems("art") :
              /\ EprHold(ddi_bytes, u.epr)
              /\ RefHolds(ddi_bytes, u.snd, 18)
              /\ RefHolds(ddi_bytes, u.snd_start, 18)

\* an index with all three kinds of unit has parsed, its units have FRM2
\* sites, and an ARTp recorded a negative logical offset
C1_Witness ==
    /\ pc = "parsed"
    /\ \E u \in StaUnits : u.epr # <<>>
    /\ VqmUnits # {}
    /\ \E u \in ArtUnits : u.epr # <<>> /\ ref_offset(u.snd) < 0

\* ---- C4

\* the ARTp of a description that are written in the layout with four more
\* bytes in front of the EpR count
RECURSIVE TonioIn(_)
TonioIn(children) ==
    IF children = <<>> THEN 0
    ELSE LET c == Head(children)
         IN  (IF c.tag = "artu"
              THEN Cardinality({j \in 1..Len(c.artp) : c.artp[j].tonio})
              ELSE IF c.tag = "art" THEN TonioIn(c.children) ELSE 0)
             + TonioIn(Tail(children))
Tonio(d) == TonioIn(d.art)

ParsedArt == pc \in {"vqm", "convert", "parsed"}

\* C4 (as the code has it): an asserted tag, sentinel or literal that
\* differs from the expected value ends the parse in failure, with one
\* exception: when the 01 00 after the EpR list of an ARTp differs, the
\* parser seeks back to the start of the list, skips four bytes and reads
\* the list again under that layout; an index whose ARTp are written in
\* that layout parses, each such ARTp having been recovered once and its
\* offsets being the ones written, and the parse fails only when 01 00
\* differs under the second layout too.
C4_MismatchFailsButEprRetry ==
    /\ pc \in {"convert", "parsed"} => input.bad = "none"
    /\ (input \in CleanInputs /\ Tonio(input) > 0) => pc # "failed"
    /\ (ParsedArt /\ input \in CleanInputs) =>
          /\ recovered = Tonio(input)
          /\ \A u \in ArtUnits :
                /\ Len(u.epr) = Len(input.art[1].children[1].artp[1].epr)
                /\ ref_offset(u.snd) + 18 = input.art[1].children[1].artp[1].snd
    /\ (input.bad = "artp.0100" /\ pc \notin {"phdc", "tdb", "dbv", "sta", "art"}) =>
          pc = "failed" /\ recovered = 1

\* the 01 00 of an ARTp is wrong: the list was read again four bytes on,
\* 01 00 differed there too, and the parse has failed
C4_Witness == pc = "failed" /\ input.bad = "artp.0100" /\ recovered = 1 /\ Tonio(input) = 0

\* C4 (as the specification has it): whenever a tag, sentinel or literal
\* differs from the expected value the parse ends in failure; the parser
\* never recovers from a mismatch by seeking back and reading again.
C4_MismatchAlwaysFails ==
    /\ pc \in {"convert", "parsed"} => input.bad = "none"
    /\ recovered > 0 => pc = "failed"

\* ---- C5

\* what was read of the stationary section, without the sites
StapContent(staps) ==
    [j \in 1..Len(staps) |->
        [idx |-> staps[j].k,
         epr |-> [k \in 1..Len(staps[j].v.epr) |-> ref_offset(staps[j].v.epr[k])],
         snd |-> ref_offset(staps[j].v.snd),
         id |-> ref_id(staps[j].v.snd)]]
StaContent(sta) ==
    [i \in 1..Len(sta) |->
        [idx |-> sta[i].k, phoneme |-> sta[i].v.phoneme,
         stap |-> StapContent(sta[i].v.stap)]]
\* and what the description says was written
StaWritten(sta) ==
    [i \in 1..Len(sta) |->
        [idx |-> sta[i].idx, phoneme |-> sta[i].ph,
         stap |-> [j \in 1..Len(sta[i].stap) |->
                     [idx |-> sta[i].stap[j].idx, epr |-> sta[i].stap[j].epr,
                      snd |-> sta[i].stap[j].snd, id |-> sta[i].stap[j].id]]]]

\* the same of an articulation section whose blocks hold ARTu only
ArtpContent(artps) ==
    [j \in 1..Len(artps) |->
        [idx |-> artps[j].k,
         epr |-> [k \in 1..Len(artps[j].v.epr) |-> ref_offset(artps[j].v.epr[k])],
         snd |-> ref_offset(artps[j].v.snd) + 18,
         snd_start |-> ref_offset(artps[j].v.snd_start) + 18,
         id |-> ref_id(artps[j].v.snd)]]
ArtContent(art) ==
    [i \in 1..Len(art) |->
        [idx |-> art[i].k, phoneme |-> art[i].v.phoneme,
         artu |-> [n \in 1..Len(art[i].v.artu) |->
                     [idx |-> art[i].v.artu[n].k,
                      phoneme |-> art[i].v.artu[n].v.phoneme,
                      artp |-> ArtpContent(art[i].v.artu[n].v.artp)]]]]
ArtWritten(art) ==
    [i \in 1..Len(art) |->
        [idx |-> art[i].idx, phoneme |-> art[i].ph,
         artu |-> [n \in 1..Len(art[i].children) |->
                     [idx |-> art[i].children[n].idx,
                      phoneme |-> art[i].children[n].ph,
                      artp |-> [j \in 1..Len(art[i].children[n].artp) |->
                                  [idx |-> art[i].children[n].artp[j].idx,
                                   epr |-> art[i].children[n].artp[j].epr,
                                   snd |-> art[i].children[n].artp[j].snd,
                                   snd_start |-> art[i].children[n].artp[j].snd_start,
                                   id |-> art[i].children[n].artp[j].id]]]]]]

\* C5: an index that lacks the VQM, TDB or PHDC section parses; the field of
\* a missing section is left empty and offset_map has no entry for it, the
\* derived catalogue has a 'vqm' entry exactly when a VQM section was found,
\* and the stationary and articulation sections are read as what was
\* written, whichever optional sections are there.
C5_OptionalSections ==
    input \in CleanInputs =>
        /\ pc # "failed"
        /\ pc = "parsed" =>
              /\ ~input.phdc => phdc_data = <<>>
              /\ ~input.tdb => tdb_data = <<>>
              /\ vqm_data = None <=> ~input.has_vqm
              /\ DictHas(offset_map, "phdc") <=> input.phdc
              /\ DictHas(offset_map, "tdb") <=> input.tdb
              /\ DictHas(offset_map, "vqm") <=> input.has_vqm
              /\ DictHas(ddi_data_dict, "vqm") <=> input.has_vqm
              /\ DictHas(offset_map, "dbv") /\ DictHas(offset_map, "sta")
              /\ DictHas(offset_map, "art")
              /\ StaContent(sta_data) = StaWritten(input.sta)
              /\ ArtContent(art_data) = ArtWritten(input.art)
              /\ Keys(DictGet(ddi_data_dict, "sta")) = <<PhOf(1)>>
              /\ Keys(DictGet(ddi_data_dict, "art")) = <<Join(PhOf(1), PhOf(2))>>

\* an index with none of the three optional sections has parsed
C5_Witness ==
    /\ pc = "parsed"
    /\ ~input.phdc /\ ~input.tdb /\ ~input.has_vqm
    /\ StaUnits # {} /\ ArtUnits # {}
    /\ ~DictHas(ddi_data_dict, "vqm")

\* ---- C6

V3Layout(bs) ==
    [g \in 1..from_bytes(Rd(bs, 0, 4)) |->
        [start  |-> from_bytes(Rd(bs, 16 * g - 12, 4)),
         end    |-> from_bytes(Rd(bs, 16 * g - 8, 4)),
         start2 |-> from_bytes(Rd(bs, 16 * g - 4, 4)),
         end2   |-> from_bytes(Rd(bs, 16 * g, 4))]]
V2Layout(bs) == <<[i \in 1..(Len(bs) \div 4) |-> from_bytes(Rd(bs, 4 * (i - 1), 4))]>>

\* C6: the frame-alignment table of every ARTp, of L bytes, is read as the
\* V3 layout (a count, then count groups of four u32) only if L > 4 and
\* count*16 + 4 = L, and in every other case as the V2 layout, one flat
\* group of L/4 u32.
C6_AlignLayout ==
    pc = "parsed" =>
        \A u \in ArtUnits :
            u.frame_align =
                IF /\ Len(u.align_bytes) > 4
                   /\ from_bytes(Rd(u.align_bytes, 0, 4)) * 16 + 4 = Len(u.align_bytes)
                THEN V3Layout(u.align_bytes)
                ELSE V2Layout(u.align_bytes)

\* ---- C7

Stored(d, child) == DictHas(d, child.idx) /\ DictGet(d, child.idx) = child.val

HasOtherTag(d) ==
    \E i \in 1..Len(d.art) :
        \E n \in 1..Len(d.art[i].children) : d.art[i].children[n].tag = "other"

\* C7: an 'ART ' block that declares n children consumes n children, a
\* child with the tag 'ART ' is stored under art and one with the tag
\* 'ARTu' under artu, any other tag fails the parse, and after the block
\* the entries under art and artu together are those n children: none is
\* dropped or overwritten.
C7_ChildrenKept ==
    /\ HasOtherTag(input) => ~ParsedArt
    /\ ParsedArt =>
          \A b \in AllBlocks(UnitsOf(art_data)) :
              /\ Len(b.seen) = b.artu_num
              /\ Len(b.artu) + Len(b.art) = b.artu_num
              /\ \A i \in 1..Len(b.seen) :
                    IF b.seen[i].tag = ART_ THEN Stored(b.art, b.seen[i])
                    ELSE Stored(b.artu, b.seen[i])
-----------------------------------------------------------------------------
(* Pack: the sites the parser recorded and what pack wrote at them *)

EprSites(units) == UNION {{ref_site(u.epr[k]) : k \in 1..Len(u.epr)} : u \in units}
SndSites(units) == {ref_site(u.snd) : u \in units}
SndStartSites(units) == {ref_site(u.snd_start) : u \in units}

\* the FRM2 and SND sites of every STAp, ARTp and VQMp
UnitSites ==
    EprSites(StaUnits) \cup SndSites(StaUnits)
    \cup EprSites(ArtUnits) \cup SndSites(ArtUnits)
    \cup EprSites(VqmUnits) \cup SndSites(VqmUnits)
\* every site the parser recorded
RecordedSites == UnitSites \cup SndStartSites(ArtUnits)

\* the chunk of site s was written to the new data file, and the output
\* index holds at s the position it was written at, plus bias
Relocated(s, bias) ==
    \E i \in 1..Len(log) :
        log[i].site = s /\ U64Is(ddi_file, s, log[i].at + bias)

\* C8: after pack completes, the 8 bytes at every FRM2 site and at the SND
\* site of every STAp, ARTp and VQMp in the output index are the position
\* in the new data file at which that chunk was written.
C8_SitesRelocated ==
    pc = "packed" => \A s \in UnitSites : Relocated(s, 0)

\* ---- C9

HasArtp(d) ==
    \E i \in 1..Len(d.art) :
        \E n \in 1..Len(d.art[i].children) : d.art[i].children[n].artp # <<>>

\* C9: for a valid index with at least one ARTp and a complete chunk tree,
\* pack completes, and the output index holds at the snd site of every ARTp
\* the position at which its SND header was written plus 0x12, and at its
\* snd_start site that value plus the difference snd_start - snd of the
\* input index.
C9_ArtpPacked ==
    (HasArtp(input) /\ input.tree = "complete") =>
        /\ pc # "pack_failed"
        /\ pc = "packed" =>
              \A u \in ArtUnits :
                  /\ Relocated(ref_site(u.snd), 18)
                  /\ Relocated(ref_site(u.snd_start),
                               18 + ref_offset(u.snd_start) - ref_offset(u.snd))

\* ---- C10

Changed(a, b) == {i \in 1..Len(a) : a[i] # b[i]}

\* C10: the output index of pack has the length of the input index and
\* differs from it only inside the 8-byte fields at the FRM2, SND and
\* snd_start sites the parser recorded; when pack patched no site the
\* output is the input byte for byte.
C10_OnlySitesChange ==
    pc = "packed" =>
        /\ Len(ddi_file) = Len(ddi_bytes)
        /\ \A i \in Changed(ddi_bytes, ddi_file) :
              \E s \in RecordedSites : s < i /\ i <= s + 8
        /\ log = <<>> => ddi_file = ddi_bytes

\* pack has completed, it patched sites, and the output differs from the
\* input
C10_Witness ==
    /\ pc = "packed"
    /\ Len(log) >= 2
    /\ Changed(ddi_bytes, ddi_file) # {}
-----------------------------------------------------------------------------
(* Pack: the order of the writes *)

IsPrefix(a, b) == Len(a) <= Len(b) /\ a = SubSeq(b, 1, Len(a))

\* the sites pack has written so far, in the order it wrote them
LogSites == [i \in 1..Len(log) |-> log[i].site]

EprSiteSeq(eprs) == [k \in 1..Len(eprs) |-> ref_site(eprs[k])]
\* the sites of one unit: its FRM2 sites in epr-list order, then its SND site
StaItemSites(item) == EprSiteSeq(item.epr) \o <<ref_site(item.snd)>>
ArtItemSites(item) ==
    EprSiteSeq(item.epr) \o <<ref_site(item.snd), ref_site(item.snd_start)>>

\* the sites in the order of the derived catalogue: the articulation keys,
\* then the stationary keys, each sorted as strings, the units of a key in
\* the order of their index
CatalogueOrder ==
    LET art == DictGet(ddi_data_dict, "art")
        sta == DictGet(ddi_data_dict, "sta")
    IN  Cat([n \in 1..Len(art) |->
               Cat([i \in 1..Len(art[n].v) |-> ArtItemSites(art[n].v[i])])])
        \o Cat([n \in 1..Len(sta) |->
                  Cat([i \in 1..Len(sta[n].v) |-> StaItemSites(sta[n].v[i])])])

\* the sites in the order of the parser's maps, which are sorted by index
UnitSeqSites(units) ==
    Cat([j \in 1..Len(units) |->
           EprSiteSeq(units[j].v.epr) \o <<ref_site(units[j].v.snd)>>])
ArtuSeqSites(artus) ==
    Cat([n \in 1..Len(artus) |->
           Cat([j \in 1..Len(artus[n].v.artp) |->
                  EprSiteSeq(artus[n].v.artp[j].v.epr)
                  \o <<ref_site(artus[n].v.artp[j].v.snd),
                       ref_site(artus[n].v.artp[j].v.snd_start)>>])])
IndexOrder ==
    Cat([i \in 1..Len(art_data) |->
           ArtuSeqSites(art_data[i].v.artu)
           \o Cat([m \in 1..Len(art_data[i].v.art) |->
                     ArtuSeqSites(art_data[i].v.art[m].v.artu)])])
    \o Cat([i \in 1..Len(sta_data) |-> UnitSeqSites(sta_data[i].v.stap)])

IsLogged(s) == \E i \in 1..Len(log) : log[i].site = s

\* every write recorded in the log appended a chunk of its kind to the data
\* file, later writes further on
ChunksInLogOrder ==
    /\ \A i \in 1..Len(log) :
          Rd(ddb_f, log[i].at, 4) = (IF log[i].kind = "epr" THEN FRM2 ELSE SND_)
    /\ \A i, j \in 1..Len(log) :
          i < j => (log[i].at < log[j].at
                    \/ (log[i].at = log[j].at /\ log[j].kind = "snd_start"))

Packing == pc \in {"pack", "packed", "pack_failed"}

\* C11 (as the code has it): pack appends chunks in the order of the derived
\* catalogue: the articulation keys first and then the stationary phonemes,
\* each sorted as strings (not by the index keys of the parser's maps), the
\* units of a key in index order, and within a unit its FRM2 chunks in
\* epr-list order before its SND chunk.
C11_DerivedCatalogueOrder ==
    Packing =>
        /\ IsPrefix(LogSites, CatalogueOrder)
        /\ pc = "packed" => LogSites = CatalogueOrder
        /\ ChunksInLogOrder

\* pack has completed on an index whose stationary phonemes do not rise
\* with the STAu index; every unit was visited, key order is not index order
C11_Witness ==
    /\ pc = "packed"
    /\ Len(log) >= 4
    /\ Len(LogSites) = Len(IndexOrder)
    /\ LogSites # IndexOrder
    /\ \E i \in 1..Len(log) : log[i].kind = "epr"

\* C11 (as the specification has it): units are visited in the order of the
\* parser's stationary and articulation maps, which are ordered by their
\* index keys, FRM2 chunks in epr-list order before the SND chunk.
C11_IndexOrder ==
    pc = "packed" =>
        /\ LogSites = SelectSeq(IndexOrder, IsLogged)
        /\ ChunksInLogOrder

\* C12: during one pack run every FRM2 site and every SND site recorded for
\* a STAp or an ARTp of the catalogue, the ARTp of nested blocks and the
\* units that share a phoneme sequence with another unit included, is
\* written exactly once.
C12_EachSiteOnce ==
    pc = "packed" =>
        \A s \in EprSites(StaUnits) \cup SndSites(StaUnits)
                 \cup EprSites(ArtUnits) \cup SndSites(ArtUnits) :
            Cardinality({i \in 1..Len(log) : log[i].site = s}) = 1

\* ---- the SND chunk of a stationary unit

\* the STAp that pack visits: the items of the stationary phonemes of the
\* derived catalogue, with the phoneme and the place that name their file
VisitedSta ==
    IF ~Packing THEN {}
    ELSE UNION {{[phoneme |-> e.k, i |-> i - 1, item |-> e.v[i]] : i \in 1..Len(e.v)} :
                  e \in {DictGet(ddi_data_dict, "sta")[n] :
                           n \in 1..Len(DictGet(ddi_data_dict, "sta"))}}
StaFileOf(v) == DictGet(tree, sta_file_of(v.phoneme, v.i))
SndLogged(site) == {n \in 1..Len(log) : log[n].kind = "snd" /\ log[n].site = site}
\* entry n of the log is the chunk at 0x3D of the file, copied to the data
\* file, and the site holds the place of the copy plus the distance of the
\* declared offset from 0x3D
SndMoved(n, file, declared) ==
    /\ Rd(file, 61, 4) = SND_
    /\ Rd(ddb_f, log[n].at, 4) = SND_
    /\ Rd(ddb_f, log[n].at, from_bytes(Rd(file, 65, 4)))
         = Rd(file, 61, from_bytes(Rd(file, 65, 4)))
    /\ log[n].value = log[n].at + (declared - 61)
    /\ U64Is(ddi_data, log[n].site, log[n].value)
StaPacked(v) ==
    /\ SndLogged(ref_site(v.item.snd)) # {}
    /\ \A n \in SndLogged(ref_site(v.item.snd)) :
          SndMoved(n, StaFileOf(v), ref_offset(v.item.snd))
HasSndAt3D(v) ==
    /\ DictHas(tree, sta_file_of(v.phoneme, v.i))
    /\ Rd(StaFileOf(v), 61, 4) = SND_

NoSndFails ==
    /\ pc = "pack_failed"
    /\ \E v \in VisitedSta :
          DictHas(tree, sta_file_of(v.phoneme, v.i)) /\ ~HasSndAt3D(v)
-----------------------------------------------------------------------------
(* The mix-in: what reaches the output index and the output data file *)

\* the recipient index as it was read, and whether it holds a VQM section
MixRan == mix # <<>> /\ mix.stage \in {"units", "returned", "done"}
SrcHasVqm == DictHas(ddi_data_dict, "vqm")
DbvLenPost == DictGet(offset_map, "dbv")[1] + 24

\* the recipient index with its DBV count raised by one
Bumped ==
    write_at(mix.src_ddi, DbvLenPost,
             u32(from_bytes(Rd(mix.src_ddi, DbvLenPost, 4)) + 1))

\* where the image begins in the output index
SplicePos == PyIdx(Len(mix.src_ddi), mix.ddi_vqm_pos)

C14_VqmReplaced ==
    (MixRan /\ mix.stage # "units" /\ SrcHasVqm /\ mix.choice = "y") =>
        /\ pc = "mixed"
        /\ ddi_file = SubSeq(mix.src_ddi, 1, DictGet(offset_map, "vqm")[1])
                      \o mix.ddi_vqm_bytes
                      \o SubSeq(mix.src_ddi, DictGet(offset_map, "vqm")[2] + 1,
                                Len(mix.src_ddi))
        /\ Rd(ddi_file, DbvLenPost, 4) = Rd(mix.src_ddi, DbvLenPost, 4)

\* the positions of the footer in the recipient index
FooterAt == {p \in 0..Len(mix.src_ddi) : Rd(mix.src_ddi, p, Len(ddi_footer)) = ddi_footer}
LastFooter == CHOOSE p \in FooterAt : \A q \in FooterAt : q <= p

\* C15: without a VQM section in the recipient, the image is inserted
\* exactly at the trailing (last) length-prefixed 'voice' footer: the output
\* is index[0:footer] + image + index[footer:], up to the DBV count; an
\* index without such a footer is never rewritten with the image elsewhere.
C15_InsertedAtLastFooter ==
    (pc = "mixed" /\ ~SrcHasVqm) =>
        /\ FooterAt # {}
        /\ ddi_file = SubSeq(Bumped, 1, LastFooter)
                      \o mix.ddi_vqm_bytes
                      \o SubSeq(Bumped, LastFooter + 1, Len(Bumped))

\* ---- the output data file

\* the VQM section of the output index, parsed
OutVqm == read_vqm(ddi_file, find(ddi_file, FF(8) \o VQM_))
\* the declared length of the chunk at q of the donor data file
DeclLen(q) == from_bytes(Rd(mix.mixins_ddb, q + 4, 4))
\* the bytes at `at' of the output data file are the donor chunk at q
IsCopyOf(at, q, magic) ==
    /\ Rd(ddb_f, at, 4) = magic
    /\ Rd(mix.mixins_ddb, q, 4) = magic
    /\ Rd(ddb_f, at, DeclLen(q)) = Rd(mix.mixins_ddb, q, DeclLen(q))
IsDonorChunk(at, magic) ==
    \E q \in 0..Len(mix.mixins_ddb) : IsCopyOf(at, q, magic)

\* the offsets of the VQMp of a parsed VQM section, in the order they were
\* written
OffsetsOf(vqm) ==
    Cat([i \in 1..Len(vqm) |->
           [k \in 1..Len(vqm[i].v.epr) |-> ref_offset(vqm[i].v.epr[k])]
           \o <<ref_offset(vqm[i].v.snd)>>])
\* the donor units that were copied, in order
CopiedUnits ==
    IF mix.item = "vqm" THEN mix.mixins_vqm_data.dict
    ELSE SelectSeq(mix.mixins_sta_data[FirstStau(mix.mixins_sta_data, mix.phoneme)].v.stap,
                   LAMBDA u : Len(u.v.epr) >= EprTake)

\* every offset of the VQMp of out is where the copy of the chunk of the
\* donor unit starts
PointAtCopies(out, units) ==
    /\ Len(out) = Len(units)
    /\ \A i \in 1..Len(out) :
          /\ \A k \in 1..Len(out[i].v.epr) :
                IsCopyOf(ref_offset(out[i].v.epr[k]),
                         ref_offset(units[i].v.epr[k]), FRM2)
          /\ IsDonorChunk(ref_offset(out[i].v.snd), SND_)
          /\ mix.item = "vqm" =>
                IsCopyOf(ref_offset(out[i].v.snd), ref_offset(units[i].v.snd), SND_)
\* the copies lie one after another from the end of the recipient's bytes
\* to the end of the output data file
CopiesOnly(offs) ==
    /\ \A n \in 1..Len(offs) :
          /\ offs[n] >= Len(mix.src_ddb)
          /\ offs[n] + from_bytes(Rd(ddb_f, offs[n] + 4, 4))
               >= (IF n < Len(offs) THEN offs[n + 1] ELSE Len(ddb_f))
          /\ n < Len(offs) => offs[n] < offs[n + 1]
    /\ offs = <<>> => ddb_f = mix.src_ddb
    /\ offs # <<>> => offs[1] = Len(mix.src_ddb)

\* C16: after a successful mix-in the output data file is the complete
\* recipient data file followed only by donor chunks, and every epr and snd
\* offset of the synthesised VQMp is the position in the output data file
\* where the copied chunk starts: the bytes there begin with 'FRM2' resp.
\* 'SND ' and are the donor chunk.
C16_OffsetsPointAtCopies ==
    pc = "mixed" =>
        LET out == OutVqm
            units == CopiedUnits
            offs == OffsetsOf(out.val)
        IN  /\ out.ok
            /\ Rd(ddb_f, 0, Len(mix.src_ddb)) = mix.src_ddb
            /\ PointAtCopies(out.val, units)
            /\ CopiesOnly(offs)

\* a mix-in of each mode has copied FRM2 and SND chunks behind the
\* recipient's bytes
C16_Witness ==
    /\ pc = "mixed"
    /\ Len(OutVqm.val) = 2
    /\ OutVqm.val[2].v.epr # <<>>
    /\ Len(ddb_f) > Len(mix.src_ddb)

\* C18: in `vqm' mode every donor VQMp is copied verbatim: the VQM section
\* of the output index holds for each donor VQMp an entry of the same idx
\* whose prefix bytes, pitch1, pitch2, unknown2, dynamics, unknown3, fs and
\* snd identifier are the donor's; only the epr and snd offsets differ.
C18_VqmpVerbatim ==
    (pc = "mixed" /\ mix.item = "vqm") =>
        /\ OutVqm.ok
        /\ \A i \in 1..Len(mix.mixins_vqm_data.dict) :
              LET d == mix.mixins_vqm_data.dict[i]
              IN  /\ DictHas(OutVqm.val, d.k)
                  /\ LET o == DictGet(OutVqm.val, d.k)
                     IN  /\ o.unknown1 = d.v.unknown1
                         /\ o.pitch1 = d.v.pitch1
                         /\ o.pitch2 = d.v.pitch2
                         /\ o.unknown2 = d.v.unknown2
                         /\ o.dynamics = d.v.dynamics
                         /\ o.unknown3 = d.v.unknown3
                         /\ o.fs = d.v.fs
                         /\ ref_id(o.snd) = ref_id(d.v.snd)
                         /\ Len(o.epr) = Len(d.v.epr)

\* ---- sta2vqm

Sta2Vqm == mix # <<>> /\ mix.item = "sta2vqm" /\ pc \in {"mix", "mixed"}
\* the entry is made of the first EprTake EpR of the donor unit, in order
FirstTaken(meta, unit) ==
    /\ Len(meta.epr) = EprTake
    /\ \A k \in 1..EprTake :
          IsCopyOf(meta.epr[k], ref_offset(unit.v.epr[k]), FRM2)
\* the output data file ends with the chunk of the last entry, or is the
\* recipient's when there is none
EndsWithLast(list) ==
    IF list = <<>> THEN ddb_f = mix.src_ddb
    ELSE Len(ddb_f) = list[Len(list)].snd
                      + from_bytes(Rd(ddb_f, list[Len(list)].snd + 4, 4))
EntriesOfDonors(list, donors) ==
    /\ Len(list) <= Len(donors)
    /\ \A i \in 1..Len(list) :
          /\ FirstTaken(list[i], donors[i])
          /\ list[i].idx = str_of(i - 1)
          /\ list[i].unknown1 = Sta2VqmPrefix

\* C26: in sta2vqm mode every entry made carries the first 100 FRM2 of its
\* donor STAp, in order; a STAp of fewer than 100 is passed over and
\* nothing is appended to the output data file for it; the idx of the
\* entries are "0", "1", ... in the order of the donors; every entry has
\* the prefix 2c fb b7 5b 72 93 e2 3f 01 00.
C26_FirstHundredTaken ==
    Sta2Vqm => /\ EntriesOfDonors(mix.vqm_meta_list, CopiedUnits)
               /\ EndsWithLast(mix.vqm_meta_list)

\* an entry was made of a donor of more than 100 EpR that comes after a
\* donor of fewer
C26_Witness ==
    /\ Sta2Vqm /\ pc = "mixed"
    /\ Len(mix.vqm_meta_list) = 1
    /\ Len(CopiedUnits[1].v.epr) > EprTake
    /\ Len(mix.mixins_sta_data[FirstStau(mix.mixins_sta_data, mix.phoneme)].v.stap) = 2
-----------------------------------------------------------------------------
(* The VQM image read back *)

\* the VQMp read back for the i-th entry of the list holds the entry
EntryReadBack(image, e, o) ==
    /\ str_to_bytes(o.unknown1) = str_to_bytes(e.unknown1)
    /\ o.pitch1 = F224
    /\ o.pitch2 = e.pitch2
    /\ o.unknown2 = e.unknown2
    /\ o.dynamics = e.dynamics
    /\ o.unknown3 = e.unknown3
    /\ o.fs = 44100
    /\ Len(o.epr) = Len(e.epr)
    /\ \A k \in 1..Len(e.epr) :
          /\ ref_offset(o.epr[k]) = e.epr[k]
          /\ ref_site(o.epr[k]) >= 0
          /\ ref_site(o.epr[k]) + 8 <= Len(image)
          /\ Rd(image, ref_site(o.epr[k]), 8) = u64(e.epr[k])
    /\ ref_id(o.snd) = e.snd_id
    /\ ref_offset(o.snd) = e.snd
    /\ Rd(image, ref_site(o.snd), 8) = u64(e.snd)

\* read_vqm accepts the image, consumes it to its end and returns one VQMp
\* per entry, in order, that holds the entry
ReadBackWhole ==
    /\ pc = "read"
    /\ ddi_pos = Len(mix.ddi_vqm_bytes)
    /\ Len(vqm_data.dict) = Len(mix.vqm_meta_list)
    /\ \A i \in 1..Len(mix.vqm_meta_list) :
          /\ vqm_data.dict[i].k = int10(mix.vqm_meta_list[i].idx)
          /\ EntryReadBack(mix.ddi_vqm_bytes, mix.vqm_meta_list[i], vqm_data.dict[i].v)

\* the idx strings of the list denote different integers
DistinctInts(l) ==
    \A i, j \in 1..Len(l) : i # j => int10(l[i].idx) # int10(l[j].idx)

-----------------------------------------------------------------------------
(* Claims about extract_wav.py *)

\* every ARTp of the parsed index with its phoneme list: two phonemes for
\* a unit of an 'ART ' block, three for a unit of a block nested in it
NestedArtp(art_phoneme, subs) ==
    Cat([k \in 1..Len(subs) |->
           Cat([j \in 1..Len(subs[k].v.artu) |->
                  artp_entries(<<art_phoneme, subs[k].v.phoneme,
                                 subs[k].v.artu[j].v.phoneme>>,
                               subs[k].v.artu[j].v.artp)])])
OwnArtp(art_item) ==
    Cat([j \in 1..Len(art_item.artu) |->
           artp_entries(<<art_item.phoneme, art_item.artu[j].v.phoneme>>,
                        art_item.artu[j].v.artp)])
CatalogueArtp ==
    Cat([i \in 1..Len(art_data) |->
           OwnArtp(art_data[i].v) \o NestedArtp(art_data[i].v.phoneme, art_data[i].v.art)])

\* the articulation loop of extract has ended
ArtWalked == ext # <<>> /\ pc \in {"dump_sta", "dump_vqm", "scan", "extracted"}

StartsWithSnd(unit) == Rd(ddb_bytes, ref_offset(unit.item.snd), 4) = SND_
Emitted(unit) == \E k \in 1..Len(ext.wavs) : ext.wavs[k].path = unit_name(unit)
AllEmitted(units) == \A n \in 1..Len(units) : StartsWithSnd(units[n]) => Emitted(units[n])

\* C19: once the articulation loop of extract has ended, every ARTp of the
\* parsed index whose declared offset starts with 'SND ' in the data file,
\* the ARTp of the units of nested 'ART ' blocks included, has a WAV under
\* the name made of its phoneme list, its pitch and its offset.
C19_WholeCatalogueEmitted == ArtWalked => AllEmitted(CatalogueArtp)

\* the positions of the data file at which the four bytes are 'SND '
MagicPositions == {p \in 0..(Len(ddb_bytes) - 4) : Rd(ddb_bytes, p, 4) = SND_}
Detected(p) == InList(p, ext.found)
AllDetected(positions) == \A p \in positions : Detected(p)

\* the scan has ended: by an empty or short read, or by an exception
ScanOver == ext # <<>> /\ ext.stage = "scan" /\ pc \in {"extracted", "extract_failed"}

\* C20: when the scan has ended, every position of the data file at which
\* the four bytes are 'SND ' was detected in a window, whatever the length
\* of the file and the position.
C20_EveryMagicDetected == ScanOver => AllDetected(MagicPositions)

\* a scan that ended by an empty or short read detected every position:
\* each window begins 4 bytes before the end of the one before it
ScanToTheEndDetectsAll ==
    (ext # <<>> /\ ext.stage = "scan" /\ pc = "extracted") => AllDetected(MagicPositions)
\* ... and it got there with a position whose identificator lies across
\* the end of a window
StraddlingDetected ==
    /\ ext # <<>> /\ ext.stage = "scan" /\ pc = "extracted"
    /\ \E p \in MagicPositions :
          \E k \in 1..ext.windows : p < WindowEnd(k) /\ p + 4 > WindowEnd(k)

\* the unit at the head of the list is not located: no 'SND ' at the
\* declared offset, or none behind the declared offset of a stationary unit
Located(unit, stage) ==
    IF stage = "sta"
    THEN stream_reverse_search(ddb_bytes, SND_, ref_offset(unit.item.snd), 32768) # -1
    ELSE Rd(ddb_bytes, ref_offset(unit.item.snd), 4) = SND_
HeadMissed ==
    /\ ext # <<>> /\ ext.stage \in {"art", "sta", "vqm"} /\ ext.units # <<>>
    /\ ~Located(Head(ext.units), ext.stage)

\* C23: a unit whose header is not located never ends the run of extract:
\* the unit is passed over and the units after it and the scan are reached.
C23_MissNeverStops == pc = "extract_failed" => ~HeadMissed

\* the misses of stationary and growl units are passed over
LaterMissesPassed ==
    (pc = "extract_failed" /\ ext.stage \in {"sta", "vqm"}) => ~HeadMissed

\* the unit has a frame-alignment table; the three files of its
\* segmentation are written
Aligned(unit) == unit.item.frame_align # <<>>
SegWritten(unit) == \A k \in 1..3 : InList(seg_names(unit)[k], ext.segs)
SegOfEmitted(units) ==
    \A n \in 1..Len(units) :
        (Emitted(units[n]) /\ Aligned(units[n])) => SegWritten(units[n])

\* C28: with --gen_seg and without --gen_lab, every ARTp that has a
\* frame-alignment table and whose WAV was written has its .trans, .seg and
\* .as0 files written under the same name, the unvoiced set being the one
\* of the phoneme dictionary of the index.
C28_SegFilesWritten ==
    (ext # <<>> /\ ext.gen_seg) => SegOfEmitted(CatalogueArtp)

\* with --gen_seg the run ends at the first ARTp with a frame-alignment
\* table whose WAV was written, with or without a phoneme dictionary
SegStopsTheRun ==
    (ext # <<>> /\ ext.gen_seg /\ pc # "extract_failed")
        => \A n \in 1..Len(CatalogueArtp) :
              ~(Emitted(CatalogueArtp[n]) /\ Aligned(CatalogueArtp[n]))
SegWithDictionary ==
    /\ ext # <<>> /\ ext.gen_seg /\ phdc_data # <<>> /\ pc = "extract_failed"
    /\ \E n \in 1..Len(CatalogueArtp) :
          Emitted(CatalogueArtp[n]) /\ Aligned(CatalogueArtp[n])
-----------------------------------------------------------------------------
(* Claims about the scan of extract_wav.py *)

\* the number of times the scan wrote the file of position p
ScanWrites(p) ==
    Cardinality({k \in 1..Len(ext.wavs) :
                   ext.wavs[k].path = create_file_name(<<>>, ext.style, p, 0, S_wav)})
Scanning == ext # <<>> /\ ext.stage = "scan"
Raised(p) == InList(p, ext.raised)

\* a position dumped through the index is not written by the scan
DumpedNotWritten ==
    \A k \in 1..Len(ext.found) :
        InList(ext.found[k], ext.snd_pos_list) => ScanWrites(ext.found[k]) = 0
\* any other detected position, unless its dump raised, is written once
OthersWrittenOnce ==
    \A k \in 1..Len(ext.found) :
        (~InList(ext.found[k], ext.snd_pos_list) /\ ~Raised(ext.found[k]))
            => ScanWrites(ext.found[k]) = 1

\* C21: during the scan no chunk that was dumped through the index is
\* written again, and every other detected position is written exactly
\* once, never a second time from the window that follows.
C21_ScanWritesOnce == Scanning => (DumpedNotWritten /\ OthersWrittenOnce)

\* the scan after Ctrl+C
Aborted == Scanning /\ ext.aborted
\* the last of the writes of a written to a path
LastWrite(written, path) ==
    written[CHOOSE k \in 1..Len(written) :
          /\ written[k].path = path
          /\ \A j \in (k + 1)..Len(written) : written[j].path # path]
\* every file written whole is, with the interrupted write, what it was
WrittenKept(wavs, written) ==
    \A k \in 1..Len(wavs) :
        LastWrite(written, wavs[k].path) = LastWrite(wavs, wavs[k].path)

\* C22: a cancelled scan returns normally, no output file was being
\* written when the signal was acted upon, and every file written whole
\* before it is unchanged.
C22_CancelKeepsFiles ==
    Aborted => /\ pc = "extracted"
               /\ ext.cut = <<>>
               /\ WrittenKept(ext.wavs, ext.wavs \o ext.cut)
\* the parts of it: the return, and the files written whole
CancelReturns == Aborted => pc = "extracted"
CancelKeepsWritten == Aborted => WrittenKept(ext.wavs, ext.wavs \o ext.cut)

\* the files written for position p have as many bytes of samples as the
\* header at p declares beyond its 18 bytes
AsDeclared(p) ==
    \A k \in 1..Len(ext.wavs) :
        ext.wavs[k].path = create_file_name(<<>>, ext.style, p, 0, S_wav)
            => Len(ext.wavs[k].frames) = snd_length_at(ddb_bytes, p + 4) - 18

\* C24: no file is written whose samples are not as long as the chunk
\* declares: a chunk that declares more than the data file holds after
\* its header, or less than a header, is not written.
C24_PayloadAsDeclared ==
    Scanning => \A k \in 1..Len(ext.found) : AsDeclared(ext.found[k])

\* a chunk that declares 16 bytes or less is refused
BelowHeaderRefused ==
    Scanning => \A k \in 1..Len(ext.found) :
                    snd_length_at(ddb_bytes, ext.found[k] + 4) < 17
                        => ScanWrites(ext.found[k]) = 0

\* a turn of the while loop: it ends the loop, by an empty or a short read
\* or by an exception, or the next window begins 10236 bytes further
ShortRead == Len(Rd(ddb_bytes, ext.tell, buffer_len)) < buffer_len
ScanTurn ==
    pc = "scan" =>
        \/ pc' = "scan" /\ ext'.tell = ext.tell + 10236
        \/ pc' = "extracted" /\ ShortRead
        \/ pc' = "extract_failed" /\ ext'.raised # ext.raised

\* C29: without Ctrl+C the scan of a finite data file ends, and every turn
\* of its loop either ends the loop or moves the position of the next read
\* forward by 10236 bytes, however many chunks were found in the window and
\* wherever the reads of their headers and payloads left the file.
C29_ScanTerminates == <>(pc # "scan") /\ [][ScanTurn]_vars

\* a scan that went through two windows or more to its end, with chunks
\* read and written on the way
C29_Witness ==
    /\ pc = "extracted" /\ ext.stage = "scan"
    /\ ext.windows >= 2 /\ ext.tell >= 10236
    /\ Len(ext.found) >= 2 /\ Len(ext.wavs) >= 2
-----------------------------------------------------------------------------
(* Claims about the names of the files *)

Named == ext # <<>> /\ ext.stage = "name" /\ pc = "named"
NameOf(u) == create_file_name(u.phonemes, ext.style, u.offset, u.pitch, ext.file_type)

\* no other unit of another phoneme list or another offset has the name
NameOfNoOther(units, name) ==
    \A u \in units :
        (u.phonemes # ext.unit.phonemes \/ u.offset # ext.unit.offset)
            => NameOf(u) # name

\* C25: two units of different phoneme lists or of different offsets never
\* receive the same path from create_file_name.
C25_NamesDistinct == Named => NameOfNoOther(NameUnits, ext.name)

\* the parts of it that hold.  The name ends with '_' (or, without
\* phonemes, '/' or '_'), the offset as 8 lower-case hex digits, '.' and
\* the extension
IsSuffix(a, b) == Len(a) <= Len(b) /\ SubSeq(b, Len(b) - Len(a) + 1, Len(b)) = a
NameEndsWithOffset ==
    Named => IsSuffix(Ascii(fmt_fill(ext.unit.offset, 8)) \o <<46>> \o ext.file_type,
                      ext.name)
\* under devkit it begins with the directory of the number of phonemes
DevkitRoot(phonemes) ==
    CASE phonemes = <<>> -> S_unknown
      [] phonemes = <<S_growl>> -> S_vqm_growl
      [] Len(phonemes) = 1 /\ phonemes # <<S_growl>> -> S_stationary
      [] Len(phonemes) = 2 -> S_articulation
      [] Len(phonemes) = 3 -> S_triphoneme
NameBeginsWithRoot ==
    (Named /\ ext.style = "devkit")
        => IsPrefix(DevkitRoot(ext.unit.phonemes) \o <<47>>, ext.name)
\* units of different offsets have different names
OffsetsDistinct ==
    Named => \A u \in NameUnits : u.offset # ext.unit.offset => NameOf(u) # ext.name
\* the example 'articulation/a#61/i#69/pit-3.75_1234abcd.wav'
S_example ==
    S_articulation \o <<47, 97, 35, 54, 49, 47, 105, 35, 54, 57, 47>> \o S_pit
    \o <<45, 51, 46, 55, 53, 95, 49, 50, 51, 52, 97, 98, 99, 100, 46>> \o S_wav
ExampleNamed ==
    (Named /\ ext.style = "devkit" /\ ext.unit.phonemes = <<S_a, S_i>>
       /\ ext.unit.offset = 305441741 /\ ext.unit.pitch = Fm375)
        => ext.name = S_example

Unescaped == ext # <<>> /\ ext.stage = "xsampa" /\ pc = "unescaped"

\* C30: unescape_xsampa gives back the name that escape_xsampa was given,
\* and no other name is escaped to the same text.
C30_EscapeInverse ==
    Unescaped => /\ ext.unescaped = ext.xsampa
                 /\ \A x \in XsampaNames : x # ext.xsampa => escape_xsampa(x) # ext.escaped

\* a character that is neither replaced nor a replacement, other than in 'Sil'
Plain(b) == escape_char(b) = b /\ unescape_char(b) = b
AllPlain(x) == \A i \in 1..Len(x) : Plain(x[i])
\* the names of such characters without 'Sil' come back
PlainInverse ==
    (Unescaped /\ AllPlain(ext.xsampa) /\ replace_Sil(ext.xsampa) = ext.xsampa)
        => ext.unescaped = ext.xsampa
=============================================================================
